---------------------------- MODULE Spec2Model ----------------------------
(***************************************************************************)
(* Model of the complaint resolution matching engine of                    *)
(* backend/app/simple_solution.py (SimpleComplaintHandler and its helper   *)
(* functions).                                                             *)
(*                                                                         *)
(* Text is modelled character by character: a Python str is a sequence of  *)
(* one-character strings, so that the regular-expression rewriting of      *)
(* remove_specific_locations, str.lower, str.strip and str.split are       *)
(* computed as Python computes them.                                       *)
(***************************************************************************)
EXTENDS Integers, Sequences, FiniteSets, TLC

VARIABLES
    complaint_data,      \* SimpleComplaintHandler.complaint_data: rows in table order
    location_data,       \* SimpleComplaintHandler.location_data: rows in table order
    excel_data,          \* excel_data of app/location.py: <<rows>>, <<>> while the name is not bound
    complaint_details,   \* the dictionary of the call in progress
    pc,                  \* position of the call in progress
    exact_solution,      \* local of generate_solution
    location_context,    \* local of generate_solution
    similar_complaints,  \* local of generate_solution
    prompt,              \* local of generate_solution: the prompt builder used and its arguments
    solution_type,       \* second component of generate_solution's result
    calls,               \* the methods and collaborators invoked by the call in progress, in order
    args,                \* arguments of a direct call of one function
    ret                  \* its result

vars == <<complaint_data, location_data, excel_data, complaint_details, pc, exact_solution,
          location_context, similar_complaints, prompt, solution_type, calls, args, ret>>

-----------------------------------------------------------------------------
(* Characters and Python's str methods *)

UpperSeq == <<"A","B","C","D","E","F","G","H","I","J","K","L","M",
              "N","O","P","Q","R","S","T","U","V","W","X","Y","Z">>
LowerSeq == <<"a","b","c","d","e","f","g","h","i","j","k","l","m",
              "n","o","p","q","r","s","t","u","v","w","x","y","z">>
Upper == {UpperSeq[i] : i \in DOMAIN UpperSeq}
Digit == {"0","1","2","3","4","5","6","7","8","9"}
\* \w of the patterns
WordChar == Upper \cup {LowerSeq[i] : i \in DOMAIN LowerSeq} \cup Digit \cup {"_"}
\* \s of the patterns, and the characters str.strip and str.split remove
Space == {" "}
\* the other characters of the model's texts
Punct == {",", ".", "%", "-", "/", ":", "|", "+"}
NonSpace == WordChar \cup Punct

LowerChar(c) ==
    IF c \in Upper THEN LowerSeq[CHOOSE i \in DOMAIN UpperSeq : UpperSeq[i] = c] ELSE c

\* str.lower
lower(s) == [i \in DOMAIN s |-> LowerChar(s[i])]

RECURSIVE RunLen(_, _, _)
\* length of the longest run of characters of class S that starts at s[i]
RunLen(S, s, i) ==
    IF i <= Len(s) /\ s[i] \in S THEN 1 + RunLen(S, s, i + 1) ELSE 0

RECURSIVE RunLenBack(_, _, _)
RunLenBack(S, s, i) ==
    IF i >= 1 /\ s[i] \in S THEN 1 + RunLenBack(S, s, i - 1) ELSE 0

\* str.strip
strip(s) ==
    LET a == RunLen(Space, s, 1)
        b == RunLenBack(Space, s, Len(s))
    IN  IF a = Len(s) THEN <<>> ELSE SubSeq(s, a + 1, Len(s) - b)

RECURSIVE split(_)
\* str.split(): the runs of non-space characters, in order
split(s) ==
    LET a == RunLen(Space, s, 1)
        n == RunLen(NonSpace, s, a + 1)
    IN  IF a + n = 0 \/ n = 0 THEN <<>>
        ELSE <<SubSeq(s, a + 1, a + n)>> \o split(SubSeq(s, a + n + 1, Len(s)))

-----------------------------------------------------------------------------
(* remove_specific_locations *)

IsWordAt(s, k) == k >= 1 /\ k <= Len(s) /\ s[k] \in WordChar

\* \b between s[i-1] and s[i]
Boundary(s, i) == IsWordAt(s, i - 1) # IsWordAt(s, i)

\* Length of the match of pattern pat that starts at s[i], 0 when there is none.
\* Every quantifier of the patterns is greedy over one character class and is
\* followed by a character outside that class or by \b, so that the only
\* candidate match takes each run whole.
MatchLen(pat, s, i) ==
    CASE pat = "site" ->      \* \b[A-Z]+\d+[A-Z]*\b
           LET u == RunLen(Upper, s, i)
               d == RunLen(Digit, s, i + u)
               v == RunLen(Upper, s, i + u + d)
           IN  IF Boundary(s, i) /\ u > 0 /\ d > 0 /\ Boundary(s, i + u + d + v)
               THEN u + d + v ELSE 0
      [] pat = "decimal" ->   \* \b\d+\.\d+\b
           LET d == RunLen(Digit, s, i)
               e == RunLen(Digit, s, i + d + 1)
           IN  IF Boundary(s, i) /\ d > 0 /\ i + d <= Len(s) /\ s[i + d] = "."
                  /\ e > 0 /\ Boundary(s, i + d + 1 + e)
               THEN d + 1 + e ELSE 0
      [] pat = "integer" ->   \* \b\d+\b
           LET d == RunLen(Digit, s, i)
           IN  IF Boundary(s, i) /\ d > 0 /\ Boundary(s, i + d) THEN d ELSE 0
      [] pat = "dbm" ->       \* \b\d+dBm\b
           LET d == RunLen(Digit, s, i)
           IN  IF Boundary(s, i) /\ d > 0 /\ i + d + 2 <= Len(s)
                  /\ SubSeq(s, i + d, i + d + 2) = <<"d", "B", "m">>
                  /\ Boundary(s, i + d + 3)
               THEN d + 3 ELSE 0
      [] pat = "percent" ->   \* \b\d+%\b
           LET d == RunLen(Digit, s, i)
           IN  IF Boundary(s, i) /\ d > 0 /\ i + d <= Len(s) /\ s[i + d] = "%"
                  /\ Boundary(s, i + d + 1)
               THEN d + 1 ELSE 0
      [] pat = "spaces" ->    \* \s+
           RunLen(Space, s, i)
      [] pat = "commas" ->    \* ,\s*,
           LET w == RunLen(Space, s, i + 1)
           IN  IF s[i] = "," /\ i + w + 1 <= Len(s) /\ s[i + w + 1] = ","
               THEN w + 2 ELSE 0
      [] pat = "spacecomma" -> \* \s,
           IF s[i] \in Space /\ i + 1 <= Len(s) /\ s[i + 1] = "," THEN 2 ELSE 0
      [] pat = "literal_percent" -> \* the substring '%' of str.replace
           IF s[i] = "%" THEN 1 ELSE 0

RECURSIVE SubFrom(_, _, _, _)
\* the scan at s[i], where the match that starts there has length m
SubAt(pat, repl, s, i, m) ==
    IF m > 0 THEN repl \o SubFrom(pat, repl, s, i + m)
    ELSE <<s[i]>> \o SubFrom(pat, repl, s, i + 1)

SubFrom(pat, repl, s, i) ==
    IF i > Len(s) THEN <<>> ELSE SubAt(pat, repl, s, i, MatchLen(pat, s, i))

\* re.sub(pat, repl, s): the leftmost non-overlapping matches replaced
re_sub(pat, repl, s) == SubFrom(pat, repl, s, 1)

TheArea == <<"t","h","e"," ","a","r","e","a">>
CurrentSignalLevel ==
    <<"c","u","r","r","e","n","t"," ","s","i","g","n","a","l"," ","l","e","v","e","l">>

\* the rewriting steps in the order of the code, innermost first
remove_specific_locations(text) ==
    IF text = <<>> \/ strip(text) = <<>> THEN text
    ELSE strip(
           re_sub("spacecomma", <<",">>,
           re_sub("commas", <<",">>,
           re_sub("spaces", <<" ">>,
           re_sub("percent", <<>>,
           re_sub("dbm", CurrentSignalLevel,
           re_sub("integer", <<>>,
           re_sub("decimal", <<>>,
           re_sub("site", TheArea, text)))))))))

-----------------------------------------------------------------------------
(* Python values: str, float, None and the NaN of an empty table cell.     *)
(* A float is an integer count of Unit-ths: the model's floats are the     *)
(* multiples of 1e-7.  A dict is the sequence of its <<key, value>> items  *)
(* in insertion order.                                                     *)

Unit == 10000000

StrV(chars) == [t |-> "str", s |-> chars, n |-> 0]
FloatV(n) == [t |-> "float", s |-> <<>>, n |-> n]
NoneV == [t |-> "None", s |-> <<>>, n |-> 0]
NaNV == [t |-> "nan", s |-> <<>>, n |-> 0]

\* dict.get(k): None when the key is absent
DictGet(d, k) ==
    IF \E i \in DOMAIN d : d[i][1] = k
    THEN d[CHOOSE i \in DOMAIN d : d[i][1] = k][2]
    ELSE NoneV

\* d[k] = v
DictSet(d, k, v) ==
    IF \E i \in DOMAIN d : d[i][1] = k
    THEN [i \in DOMAIN d |-> IF d[i][1] = k THEN <<k, v>> ELSE d[i]]
    ELSE Append(d, <<k, v>>)

Abs(n) == IF n < 0 THEN 0 - n ELSE n

DigitSeq == <<"0","1","2","3","4","5","6","7","8","9">>

RECURSIVE NatStr(_)
NatStr(n) == IF n < 10 THEN <<DigitSeq[n + 1]>> ELSE NatStr(n \div 10) \o <<DigitSeq[(n % 10) + 1]>>

RECURSIVE FracDigits(_, _)
FracDigits(f, k) ==
    IF k = 0 THEN <<>> ELSE FracDigits(f \div 10, k - 1) \o <<DigitSeq[(f % 10) + 1]>>

\* str(x) of a float x: the shortest decimal that reads back as x, which for a
\* multiple of 1e-7 of magnitude in [1e-4, 1e16) is its decimal expansion
\* without trailing zeros
FormatFloat(n) ==
    LET a == Abs(n)
        all == FracDigits(a % Unit, 7)
        z == RunLenBack({"0"}, all, 7)
        frac == IF z = 7 THEN <<"0">> ELSE SubSeq(all, 1, 7 - z)
    IN  (IF n < 0 THEN <<"-">> ELSE <<>>) \o NatStr(a \div Unit) \o <<".">> \o frac

\* round(x, 6): the nearest multiple of 1e-6 (to even on a tie of the decimal
\* digits; the model's coordinates do not end in 5)
Round6(n) ==
    LET a == Abs(n)
        q == a \div 10
        r == a % 10
        up == r > 5 \/ (r = 5 /\ q % 2 = 1)
        m == 10 * (IF up THEN q + 1 ELSE q)
    IN  IF n < 0 THEN 0 - m ELSE m

RECURSIVE DigitsVal(_)
DigitsVal(ds) ==
    IF ds = <<>> THEN 0
    ELSE 10 * DigitsVal(SubSeq(ds, 1, Len(ds) - 1))
         + (CHOOSE d \in 0..9 : DigitSeq[d + 1] = ds[Len(ds)])

\* the literal b without its sign: d1 digits, then, if there is a dot, d2 digits
ParseDigits(neg, b, d1, dot, d2) ==
    IF lower(b) = <<"n", "a", "n">> THEN [ok |-> TRUE, nan |-> TRUE, n |-> 0]
    ELSE IF d1 + d2 > 0 /\ d1 + (IF dot THEN 1 + d2 ELSE 0) = Len(b)
         THEN [ok |-> TRUE, nan |-> FALSE,
               n |-> (IF neg THEN 0 - 1 ELSE 1)
                     * (DigitsVal(SubSeq(b, 1, d1)) * Unit
                        + DigitsVal([i \in 1..7 |-> IF i <= d2 THEN b[d1 + 1 + i] ELSE "0"]))]
         ELSE [ok |-> FALSE, nan |-> FALSE, n |-> 0]

ParseFraction(neg, b, d1, dot) ==
    ParseDigits(neg, b, d1, dot, IF dot THEN RunLen(Digit, b, d1 + 2) ELSE 0)

ParseInteger(neg, b, d1) ==
    ParseFraction(neg, b, d1, d1 + 1 <= Len(b) /\ b[d1 + 1] = ".")

ParseUnsigned(neg, b) == ParseInteger(neg, b, RunLen(Digit, b, 1))

ParseSigned(t) ==
    ParseUnsigned(t # <<>> /\ t[1] = "-",
                  IF t # <<>> /\ t[1] \in {"-", "+"} THEN Tail(t) ELSE t)

\* float(s) of a str s: [ok, nan, n]; ok is FALSE where Python raises
\* ValueError.  Decimal literals with an optional sign and "nan" are read, the
\* fraction to its first seven digits; exponents, "inf" and digit-group
\* underscores are outside the model's inputs.
ParseFloat(s) == ParseSigned(strip(s))

\* str(v)
StrOf(v) ==
    CASE v.t = "str" -> v.s
      [] v.t = "float" -> FormatFloat(v.n)
      [] v.t = "nan" -> <<"n", "a", "n">>
      [] v.t = "None" -> <<"N", "o", "n", "e">>

\* float(v): a float as it is, NaN as nan, a str parsed
FloatOf(v) ==
    CASE v.t = "str" -> ParseFloat(v.s)
      [] v.t = "float" -> [ok |-> TRUE, nan |-> FALSE, n |-> v.n]
      [] v.t = "nan" -> [ok |-> TRUE, nan |-> TRUE, n |-> 0]
      [] v.t = "None" -> [ok |-> FALSE, nan |-> FALSE, n |-> 0]

\* row.get(col, default)
RowGet(row, col, default) == IF col \in DOMAIN row THEN row[col] ELSE default

\* pd.notna(v)
notna(v) == v.t \notin {"nan", "None"}

\* the characters of the model in code point order
AsciiOrder == <<" ","%","+",",","-",".","/","0","1","2","3","4","5","6","7","8","9",":","A","B","C","D","E","F","G","H","I","J","K","L","M","N","O","P","Q","R","S","T","U","V","W","X","Y","Z","_","a","b","c","d","e","f","g","h","i","j","k","l","m","n","o","p","q","r","s","t","u","v","w","x","y","z","|">>
CodeOf == [c \in {AsciiOrder[i] : i \in DOMAIN AsciiOrder} |->
              CHOOSE i \in DOMAIN AsciiOrder : AsciiOrder[i] = c]

RECURSIVE StrLessFrom(_, _, _)
StrLessFrom(a, b, i) ==
    IF i > Len(b) THEN FALSE
    ELSE IF i > Len(a) THEN TRUE
    ELSE IF a[i] = b[i] THEN StrLessFrom(a, b, i + 1)
    ELSE CodeOf[a[i]] < CodeOf[b[i]]

\* a < b of two str
StrLess(a, b) == StrLessFrom(a, b, 1)

RECURSIVE sorted(_)
\* sorted(list of str)
sorted(xs) ==
    IF xs = <<>> THEN <<>>
    ELSE LET rest == sorted(Tail(xs))
             k == Cardinality({i \in DOMAIN rest : StrLess(rest[i], Head(xs))})
         IN  SubSeq(rest, 1, k) \o <<Head(xs)>> \o SubSeq(rest, k + 1, Len(rest))

RECURSIVE join(_, _)
\* sep.join(list of str)
join(sep, xs) ==
    IF xs = <<>> THEN <<>>
    ELSE IF Len(xs) = 1 THEN xs[1]
    ELSE xs[1] \o sep \o join(sep, Tail(xs))

-----------------------------------------------------------------------------
(* create_complaint_signature *)

all_conditions ==
    <<"device_type_settings_vpn_apn", "signal_strength", "quality_of_signal",
      "site_kpi_alarm", "past_data_analysis", "indoor_outdoor_coverage_issue",
      "location", "longitude", "latitude">>

\* the characters of a key
KeyChars(k) ==
    CASE k = "device_type_settings_vpn_apn" ->
           <<"d","e","v","i","c","e","_","t","y","p","e","_","s","e","t","t","i","n","g","s","_","v","p","n","_","a","p","n">>
      [] k = "signal_strength" ->
           <<"s","i","g","n","a","l","_","s","t","r","e","n","g","t","h">>
      [] k = "quality_of_signal" ->
           <<"q","u","a","l","i","t","y","_","o","f","_","s","i","g","n","a","l">>
      [] k = "site_kpi_alarm" ->
           <<"s","i","t","e","_","k","p","i","_","a","l","a","r","m">>
      [] k = "past_data_analysis" ->
           <<"p","a","s","t","_","d","a","t","a","_","a","n","a","l","y","s","i","s">>
      [] k = "indoor_outdoor_coverage_issue" ->
           <<"i","n","d","o","o","r","_","o","u","t","d","o","o","r","_","c","o","v","e","r","a","g","e","_","i","s","s","u","e">>
      [] k = "location" ->
           <<"l","o","c","a","t","i","o","n">>
      [] k = "longitude" ->
           <<"l","o","n","g","i","t","u","d","e">>
      [] k = "latitude" ->
           <<"l","a","t","i","t","u","d","e">>

Sentinels ==
    {<<>>, <<"n","/","a">>, <<"n","o","n","e">>, <<"n","u","l","l">>,
     <<"u","n","d","e","f","i","n","e","d">>}

\* ConditionValue without str.lower
ConditionValueKeepingCase(key, value) ==
    IF value.t # "None" /\ lower(strip(StrOf(value))) \notin Sentinels
    THEN IF key \in {"longitude", "latitude"} /\ value.t = "float"
         THEN IF Abs(value.n) > Unit \div 1000
              THEN <<KeyChars(key) \o <<":">> \o FormatFloat(Round6(value.n))>>
              ELSE <<>>
         ELSE <<KeyChars(key) \o <<":">> \o strip(StrOf(value))>>
    ELSE <<>>

\* the "key:value" items one key contributes: none or one
ConditionValue(key, value) ==
    IF value.t # "None" /\ lower(strip(StrOf(value))) \notin Sentinels
    THEN IF key \in {"longitude", "latitude"} /\ value.t = "float"
         THEN IF Abs(value.n) > Unit \div 1000
              THEN <<KeyChars(key) \o <<":">> \o FormatFloat(Round6(value.n))>>
              ELSE <<>>
         ELSE <<KeyChars(key) \o <<":">> \o strip(lower(StrOf(value)))>>
    ELSE <<>>

RECURSIVE ConditionValuesFrom(_, _)
ConditionValuesFrom(conditions, i) ==
    IF i > Len(all_conditions) THEN <<>>
    ELSE ConditionValue(all_conditions[i], DictGet(conditions, all_conditions[i]))
         \o ConditionValuesFrom(conditions, i + 1)

\* hashlib.md5(s.encode()).hexdigest(): the digest is used for equality only
\* and is taken to be free of collisions, so it is modelled by its preimage
md5_hexdigest(s) == s

\* condition_str
condition_str(conditions) ==
    IF conditions # <<>>
    THEN join(<<"|">>, sorted(ConditionValuesFrom(conditions, 1)))
    ELSE <<>>

\* normalized_complaint
normalized_complaint(complaint_text) ==
    remove_specific_locations(strip(lower(complaint_text)))

\* create_complaint_signature with the conditions left out of signature_input
signature_of_text(complaint_text, conditions) ==
    md5_hexdigest(normalized_complaint(complaint_text) \o <<"|">>)

create_complaint_signature(complaint_text, conditions) ==
    md5_hexdigest(normalized_complaint(complaint_text) \o <<"|">> \o condition_str(conditions))

-----------------------------------------------------------------------------
(* format_solution_paragraphs *)

\* The str the function returns, as the numbered paragraphs and the solution
\* type of the trailing "[Solution type: ...]" marker.  remove_specific_locations
\* leaves no line break in cleaned_text (it rewrites every run of white space to
\* one space), so that neither re.split finds a separator: there is at most one
\* paragraph, numbered 1.
raw_paragraphs(cleaned_text) ==
    IF strip(cleaned_text) # <<>> THEN <<strip(cleaned_text)>> ELSE <<>>

numbered_paragraphs(paragraphs) ==
    IF paragraphs = <<>>
    THEN << <<"1. Please contact technical support for detailed analysis and assistance with this issue.">> >>
    ELSE [i \in DOMAIN paragraphs |->
             <<"1", ".", " ">> \o remove_specific_locations(paragraphs[i])]

format_solution_paragraphs(solution_text, type) ==
    IF solution_text = <<>> \/ strip(solution_text) = <<>>
    THEN [paragraphs |-> << <<"No solution generated.">> >>, solution_type |-> ""]
    ELSE [paragraphs |->
             numbered_paragraphs(raw_paragraphs(
                 remove_specific_locations(strip(solution_text)))),
          solution_type |-> type]

-----------------------------------------------------------------------------
(* find_exact_match *)

\* ConditionColumns with the Location column of the table read as well
ConditionColumnsWithLocation ==
    << <<"Device type/settings/VPN/APN", "device_type_settings_vpn_apn">>,
       <<"Signal Strength", "signal_strength">>,
       <<"Qulity of Signal", "quality_of_signal">>,
       <<"Site KPI/Alarm", "site_kpi_alarm">>,
       <<"Past Data analysis", "past_data_analysis">>,
       <<"Indoor/Outdoor coverage issue", "indoor_outdoor_coverage_issue">>,
       <<"Location", "location">> >>

ConditionColumns ==
    << <<"Device type/settings/VPN/APN", "device_type_settings_vpn_apn">>,
       <<"Signal Strength", "signal_strength">>,
       <<"Qulity of Signal", "quality_of_signal">>,
       <<"Site KPI/Alarm", "site_kpi_alarm">>,
       <<"Past Data analysis", "past_data_analysis">>,
       <<"Indoor/Outdoor coverage issue", "indoor_outdoor_coverage_issue">> >>

CoordColumns == << <<"Lon", "longitude">>, <<"Lat", "latitude">> >>

RECURSIVE HistStrConditions(_, _)
\* the first loop over the columns of a row: the non-empty cells as str
HistStrConditions(row, i) ==
    IF i = 0 THEN <<>>
    ELSE LET val == RowGet(row, ConditionColumns[i][1], NoneV)
             d == HistStrConditions(row, i - 1)
         IN  IF notna(val) /\ strip(StrOf(val)) # <<>>
             THEN DictSet(d, ConditionColumns[i][2], StrV(StrOf(val)))
             ELSE d

\* HistCoordSet without float(): the cell is stored as it is
HistCoordSetRaw(d, key, coord_val, f) ==
    IF notna(coord_val) THEN DictSet(d, key, coord_val) ELSE d

\* one pass of the second loop: a coordinate cell that float() reads as f and
\* whose magnitude exceeds 0.001 is stored; a cell float() raises on is skipped
\* by the bare except
HistCoordSet(d, key, coord_val, f) ==
    IF notna(coord_val) /\ f.ok /\ ~f.nan /\ Abs(f.n) > Unit \div 1000
    THEN DictSet(d, key, FloatV(f.n))
    ELSE d

RECURSIVE HistCoordConditions(_, _, _)
HistCoordConditions(row, d, i) ==
    IF i > Len(CoordColumns) THEN d
    ELSE HistCoordConditions(row,
             HistCoordSet(d, CoordColumns[i][2],
                          RowGet(row, CoordColumns[i][1], NoneV),
                          FloatOf(RowGet(row, CoordColumns[i][1], NoneV))),
             i + 1)

hist_conditions(row) ==
    HistCoordConditions(row, HistStrConditions(row, Len(ConditionColumns)), 1)

hist_signature(row) ==
    create_complaint_signature(
        remove_specific_locations(StrOf(RowGet(row, "Issue Description", StrV(<<>>)))),
        hist_conditions(row))

\* the least index of a set of row indexes, 0 when it is empty: the row at
\* which a loop over the table in order returns
FirstIndex(hits) == IF hits = {} THEN 0 ELSE CHOOSE i \in hits : \A j \in hits : i <= j

\* the first row, in table order, whose signature equals the incoming one; 0 if none
ExactMatchIndex(data, complaint_text, conditions) ==
    FirstIndex({i \in DOMAIN data :
                   hist_signature(data[i])
                       = create_complaint_signature(complaint_text, conditions)})

\* the value returned at row i
MatchedSolution(data, i) ==
    IF data = <<>> \/ i = 0 THEN <<>>
    ELSE <<format_solution_paragraphs(
               StrOf(RowGet(data[i], "Solution", StrV(<<"No solution found">>))),
               "exact_match")>>

\* Optional[str]: <<>> is None, <<x>> is the str x
find_exact_match(data, complaint_text, conditions) ==
    MatchedSolution(data, ExactMatchIndex(data, complaint_text, conditions))

-----------------------------------------------------------------------------
(* get_location_context *)

\* a in b, of two str
IsSubstr(a, b) ==
    \E i \in 0..(Len(b) - Len(a)) : \A k \in 1..Len(a) : b[i + k] = a[k]

\* s.replace('%', '')
RemovePercent(s) == re_sub("literal_percent", <<>>, s)

\* a * a for 0 <= a < 100000, as <<hi, lo>> with a * a = hi * 1000000 + lo
Square(a) ==
    LET h == a \div 1000
        l == a % 1000
    IN  <<h * h, 2000 * h * l + l * l>>

\* the squared distance of two points whose coordinates differ by less than
\* 0.01, in units of 1e-14, as <<hi, lo>> with lo < 1000000
Distance2(dx, dy) ==
    LET x == Square(Abs(dx))
        y == Square(Abs(dy))
        lo == x[2] + y[2]
    IN  <<x[1] + y[1] + lo \div 1000000, lo % 1000000>>

Dist2Less(p, q) == p[1] < q[1] \/ (p[1] = q[1] /\ p[2] < q[2])

\* distance < 0.01 for the point differences dx, dy
Near(dx, dy) ==
    /\ Abs(dx) < Unit \div 100
    /\ Abs(dy) < Unit \div 100
    /\ Distance2(dx, dy)[1] < 10000

\* Closer with distance <= min_distance: on equal distances the later row wins
CloserOrEqual(longitude, latitude, row_lon, row_lat, best, b_lon, b_lat) ==
    /\ row_lon.ok /\ row_lat.ok /\ ~row_lon.nan /\ ~row_lat.nan
    /\ Near(longitude - row_lon.n, latitude - row_lat.n)
    /\ \/ best = 0
       \/ ~Dist2Less(Distance2(longitude - b_lon.n, latitude - b_lat.n),
                     Distance2(longitude - row_lon.n, latitude - row_lat.n))

\* the row at (row_lon, row_lat) replaces the closest_location at (b_lon, b_lat)
Closer(longitude, latitude, row_lon, row_lat, best, b_lon, b_lat) ==
    /\ row_lon.ok /\ row_lat.ok /\ ~row_lon.nan /\ ~row_lat.nan
    /\ Near(longitude - row_lon.n, latitude - row_lat.n)
    /\ \/ best = 0
       \/ Dist2Less(Distance2(longitude - row_lon.n, latitude - row_lat.n),
                    Distance2(longitude - b_lon.n, latitude - b_lat.n))

RECURSIVE ClosestFrom(_, _, _, _, _)
\* the loop over the rows: best is the index of closest_location (0: None)
ClosestFrom(data, longitude, latitude, i, best) ==
    IF i > Len(data) THEN best
    ELSE ClosestFrom(data, longitude, latitude, i + 1,
             IF Closer(longitude, latitude,
                       FloatOf(RowGet(data[i], "Lon", FloatV(0))),
                       FloatOf(RowGet(data[i], "Lat", FloatV(0))),
                       best,
                       FloatOf(RowGet(data[best], "Lon", FloatV(0))),
                       FloatOf(RowGet(data[best], "Lat", FloatV(0))))
             THEN i ELSE best)

\* index of closest_location after the coordinate loop, 0 when it is None
ClosestLocation(data, longitude, latitude) ==
    IF longitude.t = "float" /\ latitude.t = "float"
    THEN ClosestFrom(data, longitude.n, latitude.n, 1, 0)
    ELSE 0

\* site_name in location_name or location_name in site_name, both lower-cased
NameMatches(location_name, site_name) ==
    IsSubstr(location_name, site_name) \/ IsSubstr(site_name, location_name)

\* index of the first row whose site name contains, or is contained in, the
\* location name; 0 when there is none or no location name is given
NameMatch(data, location_name) ==
    IF location_name.t = "str" /\ location_name.s # <<>>
    THEN FirstIndex({i \in DOMAIN data :
                        NameMatches(lower(location_name.s),
                                    lower(StrOf(RowGet(data[i], "Site Name", StrV(<<>>)))))})
    ELSE 0

SignalDistribution ==
    <<"Good coverage, Fair coverage, Poor coverage based on area signal quality">>

\* ContextFrom with the coverage cell compared by >= 70
ContextFromAtLeast(row, f) ==
    [raised |-> ~f.ok,
     context |->
        IF ~f.ok THEN <<>>
        ELSE <<[coverage_quality |-> IF ~f.nan /\ f.n >= 70 * Unit THEN "Good" ELSE "Poor",
                signal_distribution |-> SignalDistribution]>>,
     row |-> row]

\* the dictionary built from a row whose coverage cell float() reads as f;
\* raised where float() raises ValueError, which no handler inside
\* get_location_context catches
ContextFrom(row, f) ==
    [raised |-> ~f.ok,
     context |->
        IF ~f.ok THEN <<>>
        ELSE <<[coverage_quality |-> IF ~f.nan /\ f.n > 70 * Unit THEN "Good" ELSE "Poor",
                signal_distribution |-> SignalDistribution]>>,
     row |-> row]

ContextOf(row) ==
    ContextFrom(row,
        ParseFloat(RemovePercent(StrOf(RowGet(row, "RSRP >-105dBm (%)", StrV(<<"0">>))))))

NoContext == [raised |-> FALSE, context |-> <<>>, row |-> <<>>]

\* what the function returns at row i of the table, 0 standing for no row
ContextAt(data, i) == IF i = 0 THEN NoContext ELSE ContextOf(data[i])

\* the coordinate lookup returns (or raises) when it finds a row; the name
\* lookup runs otherwise
CoordinateThenName(byCoord, byName) ==
    IF byCoord.raised \/ byCoord.context # <<>> THEN byCoord ELSE byName

\* Optional[Dict] as context: <<>> is None.  raised: the call ends with an exception.
get_location_context(data, details) ==
    IF data = <<>> THEN NoContext
    ELSE CoordinateThenName(
             ContextAt(data, ClosestLocation(data, DictGet(details, "longitude"),
                                             DictGet(details, "latitude"))),
             ContextAt(data, NameMatch(data, DictGet(details, "location"))))

-----------------------------------------------------------------------------
(* find_similar_complaints *)

RECURSIVE ToSet(_)
ToSet(xs) == IF xs = <<>> THEN {} ELSE {Head(xs)} \cup ToSet(Tail(xs))

complaint_words(complaint_text) ==
    ToSet(split(remove_specific_locations(lower(complaint_text))))

issue_words(row) ==
    ToSet(split(lower(remove_specific_locations(
        StrOf(RowGet(row, "Issue Description", StrV(<<>>)))))))

\* len(a & b) / len(a | b) as the fraction <<intersection, union>>; <<0, 1>>
\* when the union is empty
Jaccard(a, b) ==
    IF Cardinality(a \cup b) > 0
    THEN <<Cardinality(a \cap b), Cardinality(a \cup b)>>
    ELSE <<0, 1>>

Similarity(complaint_text, row) == Jaccard(complaint_words(complaint_text), issue_words(row))

\* p > q of two fractions
FracGreater(p, q) == p[1] * q[2] > q[1] * p[2]

\* similarity > 0.1
AboveThreshold(sim) == FracGreater(sim, <<1, 10>>)

\* row.to_dict() with Solution and Issue Description rewritten in the copy
row_data(row) ==
    [c \in DOMAIN row |->
        IF c \in {"Solution", "Issue Description"}
        THEN StrV(remove_specific_locations(StrOf(row[c])))
        ELSE row[c]]

\* StoredRow with row_data the row itself instead of row.to_dict(): the
\* assignments land in the stored row
StoredRowAliased(row, written) == written

\* the row of the table after the loop body has assigned Solution and Issue
\* Description: the assignments go to row_data, the dictionary of its own
\* that row.to_dict() returns, whose cells after them are written; the row
\* keeps its cells
StoredRow(row, written) == row

\* complaint_data after the loop of find_similar_complaints
StoredAfterSimilar(data, complaint_text) ==
    [i \in DOMAIN data |->
        IF AboveThreshold(Similarity(complaint_text, data[i]))
        THEN StoredRow(data[i], row_data(data[i]))
        ELSE data[i]]

\* what one row adds to the list similarities
SimilarityEntry(sim, row, i) ==
    IF AboveThreshold(sim)
    THEN <<[similarity |-> sim, data |-> row_data(row), index |-> i]>>
    ELSE <<>>

RECURSIVE SimilaritiesFrom(_, _, _)
\* the list similarities after the loop, in table order
SimilaritiesFrom(data, complaint_text, i) ==
    IF i > Len(data) THEN <<>>
    ELSE SimilarityEntry(Similarity(complaint_text, data[i]), data[i], i)
         \o SimilaritiesFrom(data, complaint_text, i + 1)

RECURSIVE SortBySimilarity(_)
\* list.sort(key = similarity, reverse = True): stable, so that items of equal
\* similarity keep their order
SortBySimilarity(xs) ==
    IF xs = <<>> THEN <<>>
    ELSE LET rest == SortBySimilarity(Tail(xs))
             k == Cardinality({i \in DOMAIN rest :
                                  FracGreater(rest[i].similarity, Head(xs).similarity)})
         IN  SubSeq(rest, 1, k) \o <<Head(xs)>> \o SubSeq(rest, k + 1, Len(rest))

\* Slice that keeps one item more
SliceOneMore(xs, n) == SubSeq(xs, 1, IF n + 1 < Len(xs) THEN n + 1 ELSE Len(xs))

\* xs[:n] for n >= 0
Slice(xs, n) == SubSeq(xs, 1, IF n < Len(xs) THEN n ELSE Len(xs))

\* similarities[:top_n] after the sort, each item with its score and row index
Ranked(data, complaint_text, top_n) ==
    Slice(SortBySimilarity(SimilaritiesFrom(data, complaint_text, 1)), top_n)

\* [data for _, data in similarities[:top_n]]
DataOf(ranked) == [i \in DOMAIN ranked |-> ranked[i].data]

find_similar_complaints(data, complaint_text, top_n) ==
    DataOf(Ranked(data, complaint_text, top_n))

-----------------------------------------------------------------------------
(* load_model *)

\* the tables of an empty pd.DataFrame()
EmptyTables == [complaint_data |-> <<>>, location_data |-> <<>>]

\* a model file: whether the path exists, whether pickle.load reads it, and
\* what model_data.get gives for the two tables (<<>>: None, <<rows>>: a table)
ModelFile(exists, readable, complaints, locations) ==
    [exists |-> exists, readable |-> readable,
     complaint_data |-> complaints, location_data |-> locations]

\* the two tables of the handler after load_model: those of the file, or two
\* empty tables when the file is missing, when pickle.load raises, or when
\* len() raises on a table that is None
load_model(file) ==
    IF ~file.exists THEN EmptyTables
    ELSE IF ~file.readable THEN EmptyTables
    ELSE IF file.complaint_data = <<>> \/ file.location_data = <<>> THEN EmptyTables
    ELSE [complaint_data |-> file.complaint_data[1], location_data |-> file.location_data[1]]

-----------------------------------------------------------------------------
(* app/location.py *)

\* pd.read_excel(file_path) at the import of the module: the rows of the
\* file, or FileNotFoundError when there is no file; excel_data is bound to
\* the rows in the first case only
read_excel(file) ==
    IF file.exists
    THEN [raised |-> FALSE, excel_data |-> <<file.rows>>]
    ELSE [raised |-> TRUE, excel_data |-> <<>>]

\* a distance in km: a number of millimetres, nan, or float('inf')
Km(mm) == [nan |-> FALSE, inf |-> FALSE, mm |-> mm]
NaNKm == [nan |-> TRUE, inf |-> FALSE, mm |-> 0]
Infinity == [nan |-> FALSE, inf |-> TRUE, mm |-> 0]

\* the values of haversine_distance at the points of the model, in
\* millimetres: <<lat1, lon1, lat2, lon2>> in units of 1e-7 degree
HaversineTable ==
    (<<69200000, 798600000, 69200000, 798600000>> :> 0) @@
    (<<69200000, 798600000, 69200000, 798736000>> :> 1501235) @@
    (<<69200000, 798600000, 72900000, 806300000>> :> 94399654) @@
    (<<69200000, 798680000, 69200000, 798600000>> :> 883079) @@
    (<<69200000, 798680000, 69200000, 798736000>> :> 618155) @@
    (<<69200000, 798680000, 72900000, 806300000>> :> 93605965) @@
    (<<69200000, 799000000, 69200000, 798600000>> :> 4415396) @@
    (<<69200000, 799000000, 69200000, 798736000>> :> 2914162) @@
    (<<69200000, 799000000, 72900000, 806300000>> :> 90447712)

\* R * c of the haversine formula; nan as soon as one coordinate is nan
haversine_distance(lat1, lon1, lat2, lon2) ==
    IF lat1.t = "nan" \/ lon1.t = "nan" \/ lat2.t = "nan" \/ lon2.t = "nan"
    THEN NaNKm
    ELSE Km(HaversineTable[<<lat1.n, lon1.n, lat2.n, lon2.n>>])

\* distance < min_distance
DistLess(distance, min_distance) ==
    /\ ~distance.nan
    /\ ~min_distance.nan
    /\ ~distance.inf
    /\ min_distance.inf \/ distance.mm < min_distance.mm

\* the radius of nearby_sites: 2.0 km, in millimetres
NearbyRadius == 2000000

\* distance <= 2.0
WithinRadius(distance) == ~distance.nan /\ ~distance.inf /\ distance.mm <= NearbyRadius

site_info(row, distance) ==
    [site_name |-> row["Site Name"],
     rsrp_range_1 |-> row["RSRP Range 1 (>-105dBm) %"],
     rsrp_range_2 |-> row["RSRP Range 2 (-105~-110dBm) %"],
     rsrp_range_3 |-> row["RSRP Range 3 (-110~-115dBm) %"],
     rsrp_below_115 |-> row["RSRP < -115dBm"],
     distance_km |-> distance]

RECURSIVE ScanFrom(_, _, _, _, _, _, _)
\* the body of the loop for the row whose site_info is info
ScanRow(data, lat, lon, i, min_distance, nearest_site, nearby_sites, info) ==
    ScanFrom(data, lat, lon, i + 1,
        IF DistLess(info.distance_km, min_distance) THEN info.distance_km ELSE min_distance,
        IF DistLess(info.distance_km, min_distance) THEN <<info>> ELSE nearest_site,
        IF WithinRadius(info.distance_km) THEN Append(nearby_sites, info) ELSE nearby_sites)

\* the loop over excel_data from row i on; nearest_site is <<>> for None
ScanFrom(data, lat, lon, i, min_distance, nearest_site, nearby_sites) ==
    IF i > Len(data)
    THEN [nearest_site |-> nearest_site, nearby_sites |-> nearby_sites]
    ELSE ScanRow(data, lat, lon, i, min_distance, nearest_site, nearby_sites,
             site_info(data[i],
                 haversine_distance(lat, lon, data[i]["location_corrected.lat"],
                                    data[i]["location_corrected.lon"])))

\* JsonResponse without the list of one site that replaces an empty nearby_sites
JsonResponseWithoutFallback(scan) ==
    IF scan.nearest_site # <<>>
    THEN [status_code |-> 200, error |-> <<>>,
          nearest_site |-> scan.nearest_site, nearby_sites |-> scan.nearby_sites]
    ELSE [status_code |-> 404, error |-> <<"No nearby site found.">>,
          nearest_site |-> <<>>, nearby_sites |-> <<>>]

\* what follows the loop: the response for its nearest_site and nearby_sites
JsonResponse(scan) ==
    IF scan.nearest_site # <<>>
    THEN [status_code |-> 200, error |-> <<>>,
          nearest_site |-> scan.nearest_site,
          nearby_sites |-> IF scan.nearby_sites = <<>>
                           THEN scan.nearest_site ELSE scan.nearby_sites]
    ELSE [status_code |-> 404, error |-> <<"No nearby site found.">>,
          nearest_site |-> <<>>, nearby_sites |-> <<>>]

get_location_data(data, lat, lon) ==
    JsonResponse(ScanFrom(data, lat, lon, 1, Infinity, <<>>, <<>>))

-----------------------------------------------------------------------------
(* The state of a handler that runs no generate_solution call *)

NoCall ==
    /\ complaint_details = <<>>
    /\ pc = "idle"
    /\ exact_solution = <<>>
    /\ location_context = <<>>
    /\ similar_complaints = <<>>
    /\ prompt = <<>>
    /\ solution_type = "none"
    /\ calls = <<>>

engine == <<complaint_details, pc, exact_solution, location_context,
            similar_complaints, prompt, solution_type, calls>>

-----------------------------------------------------------------------------
(* generate_solution *)

\* default top_n of find_similar_complaints
DefaultTopN == 5

\* the module-level generate_solution: the dictionary it builds from its arguments
complaint_details_of(msisdn, complaint_text, kwargs) ==
    << <<"msisdn", msisdn>>,
       <<"complaint", complaint_text>>,
       <<"device_type_settings_vpn_apn", kwargs["device_type_settings_vpn_apn"]>>,
       <<"signal_strength", kwargs["signal_strength"]>>,
       <<"quality_of_signal", kwargs["quality_of_signal"]>>,
       <<"site_kpi_alarm", kwargs["site_kpi_alarm"]>>,
       <<"past_data_analysis", kwargs["past_data_analysis"]>>,
       <<"indoor_outdoor_coverage_issue", kwargs["indoor_outdoor_coverage_issue"]>>,
       <<"location", kwargs["location"]>>,
       <<"longitude", kwargs["longitude"]>>,
       <<"latitude", kwargs["latitude"]>> >>

\* keyword arguments that are all None except those of kw
Kwargs(kw) ==
    [k \in {all_conditions[i] : i \in DOMAIN all_conditions} |->
        IF k \in DOMAIN kw THEN kw[k] ELSE NoneV]

\* what call_ollama_llm can return: the formatted reply of the service, or one
\* of its error strings
LLMReplies == {<<"formatted reply">>, <<"Error calling LLM">>}

\* handler.generate_solution(complaint_details) is entered
Call(details) ==
    /\ pc = "idle"
    /\ complaint_details' = details
    /\ pc' = "find_exact_match"
    /\ UNCHANGED <<complaint_data, location_data, excel_data, exact_solution, location_context,
                   similar_complaints, prompt, solution_type, calls, args, ret>>

\* ExactMatchReturns without the early return: the call goes on although a
\* solution was found
ExactMatchContinues(found) ==
    /\ exact_solution' = found
    /\ calls' = Append(calls, "find_exact_match")
    /\ pc' = "get_location_context"
    /\ UNCHANGED <<solution_type, ret>>

\* find_exact_match has returned found
ExactMatchReturns(found) ==
    /\ exact_solution' = found
    /\ calls' = Append(calls, "find_exact_match")
    /\ IF found # <<>>
       THEN /\ pc' = "done"
            /\ solution_type' = "exact_match"
            /\ ret' = found
       ELSE /\ pc' = "get_location_context"
            /\ UNCHANGED <<solution_type, ret>>

\* exact_solution = self.find_exact_match(...); if exact_solution: return
StepExactMatch ==
    /\ pc = "find_exact_match"
    /\ ExactMatchReturns(find_exact_match(complaint_data,
           StrOf(DictGet(complaint_details, "complaint")), complaint_details))
    /\ UNCHANGED <<complaint_data, location_data, excel_data, complaint_details, location_context,
                   similar_complaints, prompt, args>>

\* get_location_context has returned r.context or raised
LocationContextReturns(r) ==
    /\ calls' = Append(calls, "get_location_context")
    /\ IF r.raised
       THEN /\ pc' = "raised"
            /\ UNCHANGED location_context
       ELSE /\ pc' = "find_similar_complaints"
            /\ location_context' = r.context

\* location_context = self.get_location_context(complaint_details)
StepLocationContext ==
    /\ pc = "get_location_context"
    /\ LocationContextReturns(get_location_context(location_data, complaint_details))
    /\ UNCHANGED <<complaint_data, location_data, excel_data, complaint_details, exact_solution,
                   similar_complaints, prompt, solution_type, args, ret>>

\* similar_complaints = self.find_similar_complaints(complaint_text)
StepSimilar ==
    /\ pc = "find_similar_complaints"
    /\ similar_complaints' =
           find_similar_complaints(complaint_data,
               StrOf(DictGet(complaint_details, "complaint")), DefaultTopN)
    /\ complaint_data' =
           StoredAfterSimilar(complaint_data, StrOf(DictGet(complaint_details, "complaint")))
    /\ calls' = Append(calls, "find_similar_complaints")
    /\ pc' = "select"
    /\ UNCHANGED <<location_data, excel_data, complaint_details, exact_solution,
                   location_context, prompt, solution_type, args, ret>>

\* Strategy without the test of the number of candidates
StrategyAnyCount(similar, context) ==
    IF similar # <<>>
    THEN IF context # <<>>
         THEN "comprehensive_analysis"
         ELSE "pattern_analysis"
    ELSE "new_complaint"

\* the strategy chosen from similar_complaints and location_context
Strategy(similar, context) ==
    IF similar # <<>>
    THEN IF context # <<>> /\ Len(similar) >= 3
         THEN "comprehensive_analysis"
         ELSE "pattern_analysis"
    ELSE "new_complaint"

\* PromptOf with create_new_complaint_prompt called without location_context
PromptWithoutContext(strategy, details, similar, context) ==
    CASE strategy = "comprehensive_analysis" ->
           [builder |-> "create_complaint_solution_prompt", complaint |-> details,
            similar |-> similar, location |-> context]
      [] strategy = "pattern_analysis" ->
           [builder |-> "create_pattern_analysis_prompt",
            complaint |-> << <<"complaint", DictGet(details, "complaint")>> >>,
            similar |-> similar, location |-> <<>>]
      [] strategy = "new_complaint" ->
           [builder |-> "create_new_complaint_prompt", complaint |-> details,
            similar |-> <<>>, location |-> <<>>]

\* the prompt builder of a strategy and the arguments it is given
PromptOf(strategy, details, similar, context) ==
    CASE strategy = "comprehensive_analysis" ->
           [builder |-> "create_complaint_solution_prompt", complaint |-> details,
            similar |-> similar, location |-> context]
      [] strategy = "pattern_analysis" ->
           [builder |-> "create_pattern_analysis_prompt",
            complaint |-> << <<"complaint", DictGet(details, "complaint")>> >>,
            similar |-> similar, location |-> <<>>]
      [] strategy = "new_complaint" ->
           [builder |-> "create_new_complaint_prompt", complaint |-> details,
            similar |-> <<>>, location |-> context]

\* CallsOfBranch with call_ollama_llm called a second time
CallsOfBranchRetrying(log, builder) == log \o <<builder, "call_ollama_llm", "call_ollama_llm">>

\* what a branch adds to the log of the call: its prompt builder, then
\* self.call_ollama_llm(prompt)
CallsOfBranch(log, builder) == log \o <<builder, "call_ollama_llm">>

\* the branch taken: the prompt is built, call_ollama_llm is called and its
\* result is returned with the strategy
StepSelect ==
    /\ pc = "select"
    /\ LET strategy == Strategy(similar_complaints, location_context)
           p == PromptOf(strategy, complaint_details, similar_complaints, location_context)
       IN  /\ prompt' = <<p>>
           /\ calls' = CallsOfBranch(calls, p.builder)
           /\ solution_type' = strategy
    /\ ret' \in {<<reply>> : reply \in LLMReplies}
    /\ pc' = "done"
    /\ UNCHANGED <<complaint_data, location_data, excel_data, complaint_details, exact_solution,
                   location_context, similar_complaints, args>>

\* the call is over (its result returned, or its exception caught by the route)
\* and the handler waits for the next one
Return ==
    /\ pc \in {"done", "raised"}
    /\ complaint_details' = <<>>
    /\ pc' = "idle"
    /\ exact_solution' = <<>>
    /\ location_context' = <<>>
    /\ similar_complaints' = <<>>
    /\ prompt' = <<>>
    /\ solution_type' = "none"
    /\ calls' = <<>>
    /\ ret' = <<>>
    /\ UNCHANGED <<complaint_data, location_data, excel_data, args>>

-----------------------------------------------------------------------------
(* Spec: a handler loaded with a complaint table and a location table, and  *)
(* the generate_solution calls it serves                                    *)

MaxRecords == 3
MaxSites == 1

ComplaintRow(issue, solution, cells, lon, lat) ==
    [c \in {"Issue Description", "Solution", "Lon", "Lat"}
           \cup {ConditionColumns[i][1] : i \in DOMAIN ConditionColumns} |->
        CASE c = "Issue Description" -> StrV(issue)
          [] c = "Solution" -> StrV(solution)
          [] c = "Lon" -> lon
          [] c = "Lat" -> lat
          [] OTHER -> IF c \in DOMAIN cells THEN cells[c] ELSE NaNV]

LocationRow(name, lon, lat, rsrp) ==
    [c \in {"Site Name", "Lon", "Lat", "RSRP >-105dBm (%)"} |->
        CASE c = "Site Name" -> StrV(name)
          [] c = "Lon" -> lon
          [] c = "Lat" -> lat
          [] OTHER -> rsrp]

NoNet == <<"n","o"," ","n","e","t">>
NetDown == <<"n","e","t"," ","d","o","w","n"," ","B","1">>
Net == <<"n","e","t">>
Slow == <<"s","l","o","w">>
Good == <<"G","o","o","d">>
Fort == <<"f","o","r","t">>
Restart == <<"r","e","s","t","a","r","t"," ","5"," ","t","i","m","e","s">>
CheckSite == <<"c","h","e","c","k"," ","B","1">>

RecordPool ==
    {ComplaintRow(NoNet, Restart, ("Signal Strength" :> StrV(Good)), NaNV, NaNV),
     ComplaintRow(NetDown, CheckSite, <<>>, NaNV, NaNV)}

SitePool ==
    {LocationRow(Fort, FloatV(798600000), FloatV(69200000), StrV(<<"8", "5", "%">>)),
     LocationRow(Fort, FloatV(798600000), FloatV(69200000), StrV(<<"N", "/", "A">>)),
     LocationRow(<<"k", "a", "n", "d", "y">>, FloatV(806300000), FloatV(72900000), FloatV(700000000))}

SeqsUpTo(S, n) == UNION {[1..k -> S] : k \in 0..n}

Msisdn == StrV(<<"0", "7", "1">>)

\* the complaint that submits a record's issue description as its text and the
\* record's stored condition values, as find_exact_match reads them, as its
\* conditions
OwnRequest(row) ==
    complaint_details_of(Msisdn, row["Issue Description"],
        Kwargs([k \in {hist_conditions(row)[i][1] : i \in DOMAIN hist_conditions(row)} |->
                   DictGet(hist_conditions(row), k)]))

\* where the complaint says it is: a location name, a point, both or neither
Places ==
    {[location |-> NoneV, longitude |-> NoneV, latitude |-> NoneV],
     [location |-> StrV(Fort), longitude |-> NoneV, latitude |-> NoneV],
     [location |-> NoneV, longitude |-> FloatV(798601000), latitude |-> FloatV(69200000)],
     [location |-> NoneV, longitude |-> FloatV(799000000), latitude |-> FloatV(69200000)],
     [location |-> StrV(Fort), longitude |-> FloatV(799000000), latitude |-> FloatV(69200000)]}

Requests ==
    {complaint_details_of(Msisdn, StrV(text), Kwargs(place)) :
        text \in {NoNet, Net, Slow}, place \in Places}
    \cup {OwnRequest(row) : row \in RecordPool}

Init ==
    /\ complaint_data \in SeqsUpTo(RecordPool, MaxRecords)
    /\ location_data \in SeqsUpTo(SitePool, MaxSites)
    /\ excel_data = <<>>
    /\ NoCall
    /\ args = <<>>
    /\ ret = <<>>

Next ==
    \/ \E details \in Requests : Call(details)
    \/ StepExactMatch
    \/ StepLocationContext
    \/ StepSimilar
    \/ StepSelect
    \/ Return

Spec == Init /\ [][Next]_vars

Labels == {"exact_match", "comprehensive_analysis", "pattern_analysis", "new_complaint"}

\* C1: whenever find_exact_match returns a solution, the call ends with the
\* label exact_match and that solution, and no later step runs in the call:
\* find_exact_match is the only method it has invoked, and its next step is
\* its return.
C1_ExactMatchEndsCall ==
    /\ [](exact_solution # <<>> =>
            /\ pc = "done"
            /\ solution_type = "exact_match"
            /\ ret = exact_solution
            /\ calls = <<"find_exact_match">>
            /\ prompt = <<>>)
    /\ [][exact_solution # <<>> => pc' = "idle"]_vars

C1_Witness ==
    /\ pc = "done"
    /\ exact_solution # <<>>
    /\ solution_type = "exact_match"
    /\ Len(complaint_data) >= 2
    /\ location_data # <<>>

\* C2: with no exact match and a non-empty list of similar candidates, the
\* label is comprehensive_analysis exactly when a location context exists and
\* the list has at least 3 candidates, and pattern_analysis in every other case.
C2_ComprehensiveOrPattern ==
    (pc = "done" /\ exact_solution = <<>> /\ similar_complaints # <<>>) =>
        /\ solution_type \in {"comprehensive_analysis", "pattern_analysis"}
        /\ solution_type = "comprehensive_analysis"
               <=> (location_context # <<>> /\ Len(similar_complaints) >= 3)
        /\ prompt[1].builder =
               IF solution_type = "comprehensive_analysis"
               THEN "create_complaint_solution_prompt"
               ELSE "create_pattern_analysis_prompt"

C2_Witness ==
    /\ pc = "done"
    /\ solution_type = "comprehensive_analysis"
    /\ Len(similar_complaints) = 3
    /\ location_context # <<>>

\* C2, the other cases reached: a location context with fewer than 3
\* candidates, and 3 candidates without a location context
C2_PatternWithContext ==
    pc = "done" /\ solution_type = "pattern_analysis"
        /\ location_context # <<>> /\ Len(similar_complaints) \in {1, 2}

C2_PatternWithoutContext ==
    pc = "done" /\ solution_type = "pattern_analysis"
        /\ location_context = <<>> /\ Len(similar_complaints) >= 3

\* C3: with no exact match and an empty list of similar candidates, the label
\* is new_complaint whether or not a location context exists, and the location
\* context is passed to create_new_complaint_prompt.
C3_NewComplaintKeepsContext ==
    (pc = "done" /\ exact_solution = <<>> /\ similar_complaints = <<>>) =>
        /\ solution_type = "new_complaint"
        /\ prompt[1].builder = "create_new_complaint_prompt"
        /\ prompt[1].location = location_context

C3_Witness ==
    /\ pc = "done"
    /\ solution_type = "new_complaint"
    /\ location_context # <<>>
    /\ prompt[1].location = location_context

\* C4: every generate_solution call, whatever the complaint, the corpus and
\* the location table, ends with exactly one label of Labels and never with an
\* exception.
C4_OneLabelNoException ==
    /\ pc # "raised"
    /\ pc = "done" => solution_type \in Labels

\* C5: a complaint that submits a corpus record's issue description as its
\* text and the record's stored condition values as its conditions gets a
\* solution from find_exact_match, the formatted solution of the first record
\* whose signature equals the incoming one, and generate_solution yields
\* exact_match.
C5_OwnRecordMatches ==
    (/\ pc \notin {"idle", "find_exact_match"}
     /\ \E i \in DOMAIN complaint_data : complaint_details = OwnRequest(complaint_data[i]))
        => /\ pc = "done"
           /\ solution_type = "exact_match"
           /\ exact_solution =
                  MatchedSolution(complaint_data,
                      FirstIndex({i \in DOMAIN complaint_data :
                          hist_signature(complaint_data[i])
                              = create_complaint_signature(
                                    StrOf(DictGet(complaint_details, "complaint")),
                                    complaint_details)}))
           /\ exact_solution # <<>>

\* the number of call_ollama_llm calls of the call in progress
LLMCalls == Cardinality({i \in DOMAIN calls : calls[i] = "call_ollama_llm"})

\* C15: generate_solution does not call call_ollama_llm on the exact_match
\* path; on each of the comprehensive_analysis, pattern_analysis and
\* new_complaint paths it calls it exactly once, as its last step, right
\* after the prompt builder of the strategy, and returns what the call
\* returns; find_exact_match, get_location_context and
\* find_similar_complaints never call it.
C15_LLMAfterSelectionOnly ==
    /\ exact_solution # <<>> => LLMCalls = 0
    /\ pc # "done" => LLMCalls = 0
    /\ (pc = "done" /\ solution_type # "exact_match") =>
          /\ LLMCalls = 1
          /\ Len(calls) >= 2
          /\ calls[Len(calls)] = "call_ollama_llm"
          /\ calls[Len(calls) - 1] = prompt[1].builder
          /\ ret \in {<<reply>> : reply \in LLMReplies}

\* a pattern_analysis call that returns the error string of call_ollama_llm
C15_Witness ==
    /\ pc = "done"
    /\ solution_type = "pattern_analysis"
    /\ LLMCalls = 1
    /\ ret = << <<"Error calling LLM">> >>

\* C15 as stated: call_ollama_llm is invoked on no path of generate_solution.
C15_NeverCallsLLM == LLMCalls = 0

\* C16: no step of a generate_solution call, and so none of
\* find_exact_match, get_location_context and find_similar_complaints,
\* changes complaint_data or location_data of the loaded handler: the texts
\* find_similar_complaints strips of locations are written to the rows it
\* returns, not to the stored rows.
C16_TablesNeverChange ==
    [][complaint_data' = complaint_data /\ location_data' = location_data]_vars

\* a returned candidate whose Solution was stripped, next to its stored row
\* that keeps the text
C16_Witness ==
    /\ pc = "done"
    /\ \E k \in DOMAIN similar_complaints : \E i \in DOMAIN complaint_data :
          /\ similar_complaints[k] = row_data(complaint_data[i])
          /\ similar_complaints[k]["Solution"] # complaint_data[i]["Solution"]
          /\ complaint_data[i]["Solution"] = StrV(Restart)

-----------------------------------------------------------------------------
(* SpecNorm: remove_specific_locations applied to every short string *)

MaxLen == 4
NormAlphabet == {"B", "d", "m", "1", " ", ",", ".", "%"}
NormInputs == UNION {[1..n -> NormAlphabet] : n \in 0..MaxLen}

InitNorm ==
    /\ complaint_data = <<>>
    /\ location_data = <<>>
    /\ excel_data = <<>>
    /\ NoCall
    /\ args \in {[text |-> s] : s \in NormInputs}
    /\ ret = <<>>

\* text = remove_specific_locations(text), applied to the input and then to each result
Normalize ==
    /\ Len(ret) < 2
    /\ ret' = Append(ret, remove_specific_locations(
                              IF ret = <<>> THEN args.text ELSE ret[Len(ret)]))
    /\ UNCHANGED <<complaint_data, location_data, excel_data, engine, args>>

NextNorm == Normalize

SpecNorm == InitNorm /\ [][NextNorm]_vars

\* C10: remove_specific_locations(remove_specific_locations(s)) equals
\* remove_specific_locations(s) for every input s, and an empty or
\* whitespace-only s is returned unchanged.
C10_Idempotent ==
    /\ Len(ret) = 2 => ret[2] = ret[1]
    /\ (Len(ret) >= 1 /\ \A i \in DOMAIN args.text : args.text[i] \in Space)
          => ret[1] = args.text

\* C10, second half alone: an empty or whitespace-only input is returned unchanged
C10_BlankUnchanged ==
    (Len(ret) >= 1 /\ \A i \in DOMAIN args.text : args.text[i] \in Space)
        => ret[1] = args.text

-----------------------------------------------------------------------------
(* SpecSig: create_complaint_signature applied to two inputs *)

SigTexts ==
    {<<"n", "o", " ", "n", "e", "t">>,
     <<"N", "o", " ", " ", "N", "E", "T", " ">>,
     <<" ", "n", "o", " ", "n", "e", "t">>,
     <<"n", "o", "n", "e", "t">>,
     <<"B", "1", " ", "n", "o", " ", "n", "e", "t">>,
     <<"b", "1", " ", " ", "N", "O", " ", "n", "e", "t">>}

SigConditions ==
    {IF swapped
     THEN << <<"location", StrV(place)>>, <<"signal_strength", signal>> >>
     ELSE << <<"signal_strength", signal>>, <<"location", StrV(place)>> >> :
        swapped \in BOOLEAN,
        signal \in {NoneV, StrV(<<"V", "e", "r", "y", " ", "g", "o", "o", "d">>), StrV(<<" ", "v", "e", "r", "y", " ", "g", "o", "o", "d", " ">>), StrV(<<"v", "e", "r", "y", " ", " ", "g", "o", "o", "d">>)},
        place \in {<<"F", "o", "r", "t">>, <<" ", "f", "o", "r", "t">>}}

SigInputs == {[text |-> t, conditions |-> c] : t \in SigTexts, c \in SigConditions}

InitSig ==
    /\ complaint_data = <<>>
    /\ location_data = <<>>
    /\ excel_data = <<>>
    /\ NoCall
    /\ args \in SigInputs \X SigInputs
    /\ ret = <<>>

\* create_complaint_signature is called on each of the two inputs
Sign ==
    /\ ret = <<>>
    /\ ret' = <<create_complaint_signature(args[1].text, args[1].conditions),
                create_complaint_signature(args[2].text, args[2].conditions)>>
    /\ UNCHANGED <<complaint_data, location_data, excel_data, engine, args>>

NextSig == Sign

SpecSig == InitSig /\ [][NextSig]_vars

\* a str with its letters lower-cased, its white space runs made one space and
\* its leading and trailing white space removed
CaseAndSpaceFolded(s) == join(<<" ">>, split(lower(s)))

\* a str with its letters lower-cased and its leading and trailing white space
\* removed
CaseFoldedAndTrimmed(s) == strip(lower(s))

\* the two texts differ only in letter case and in the length of white space
\* runs, leading and trailing ones included
SameTextUpToCaseAndSpace ==
    CaseAndSpaceFolded(args[1].text) = CaseAndSpaceFolded(args[2].text)

\* the two dictionaries have the same keys and values that differ only in the
\* letter case and the leading and trailing white space of the str values
SameConditionsUpToCaseAndTrim ==
    \A i \in DOMAIN all_conditions :
        \/ DictGet(args[1].conditions, all_conditions[i])
              = DictGet(args[2].conditions, all_conditions[i])
        \/ /\ DictGet(args[1].conditions, all_conditions[i]).t = "str"
           /\ DictGet(args[2].conditions, all_conditions[i]).t = "str"
           /\ CaseFoldedAndTrimmed(DictGet(args[1].conditions, all_conditions[i]).s)
                 = CaseFoldedAndTrimmed(DictGet(args[2].conditions, all_conditions[i]).s)

\* the same, with white space runs inside the str values counted as equal
\* whatever their length
SameConditionsUpToCaseAndSpace ==
    \A i \in DOMAIN all_conditions :
        \/ DictGet(args[1].conditions, all_conditions[i])
              = DictGet(args[2].conditions, all_conditions[i])
        \/ /\ DictGet(args[1].conditions, all_conditions[i]).t = "str"
           /\ DictGet(args[2].conditions, all_conditions[i]).t = "str"
           /\ CaseAndSpaceFolded(DictGet(args[1].conditions, all_conditions[i]).s)
                 = CaseAndSpaceFolded(DictGet(args[2].conditions, all_conditions[i]).s)

\* C7, as amended: create_complaint_signature returns the same digest for two
\* inputs that differ only in the insertion order of the keys of c, in the
\* letter case of t, in the length of the white space runs of t (leading and
\* trailing white space included), and in the letter case and the leading and
\* trailing white space of the str values of c.
C7_SignatureInvariant ==
    (ret # <<>> /\ SameTextUpToCaseAndSpace /\ SameConditionsUpToCaseAndTrim)
        => ret[1] = ret[2]

C7_Witness ==
    /\ ret # <<>>
    /\ SameTextUpToCaseAndSpace
    /\ SameConditionsUpToCaseAndTrim
    /\ args[1].text # args[2].text
    /\ args[1].conditions[1][1] # args[2].conditions[1][1]
    /\ DictGet(args[1].conditions, "signal_strength")
          # DictGet(args[2].conditions, "signal_strength")
    /\ DictGet(args[1].conditions, "location") # DictGet(args[2].conditions, "location")
    /\ ret[1] = ret[2]

\* C7, as stated: create_complaint_signature returns the same digest for two
\* inputs that differ only in the insertion order of the keys of c, in the
\* letter case or white space of t, or in the letter case or white space of the
\* str values of c.
C7_AnyWhitespace ==
    (ret # <<>> /\ SameTextUpToCaseAndSpace /\ SameConditionsUpToCaseAndSpace)
        => ret[1] = ret[2]

-----------------------------------------------------------------------------
(* SpecMatch: find_exact_match called for a complaint, and again after one  *)
(* of the complaint's conditions is changed                                 *)

MaxMatchRecords == 2

MatchPool ==
    {ComplaintRow(NoNet, Restart, ("Signal Strength" :> StrV(Good)), NaNV, NaNV),
     ComplaintRow(NoNet, Restart, ("Signal Strength" :> StrV(<<"P", "o", "o", "r">>)), NaNV, NaNV),
     ComplaintRow(NoNet, CheckSite, ("Signal Strength" :> StrV(Good)),
                  FloatV(798600000), FloatV(69200000))}

\* the values a condition is changed to
ChangedValues ==
    {NoneV, StrV(Good), StrV(<<"g", "o", "o", "d">>), StrV(<<"P", "o", "o", "r">>), StrV(<<"n", "/", "a">>),
     FloatV(798600000), FloatV(798600001), FloatV(5000), FloatV(800000000)}

InitMatch ==
    /\ complaint_data \in SeqsUpTo(MatchPool, MaxMatchRecords)
    /\ location_data = <<>>
    /\ excel_data = <<>>
    /\ NoCall
    /\ args \in {[text |-> StrOf(DictGet(OwnRequest(row), "complaint")),
                  conditions |-> OwnRequest(row)] : row \in MatchPool}
    /\ ret = <<>>

\* find_exact_match(args.text, args.conditions) is called; the row it returns
\* at is kept with its result
Match ==
    /\ Len(ret) < 2
    /\ ret # <<>> => ret[1].conditions # args.conditions
    /\ ret' = Append(ret,
                 [conditions |-> args.conditions,
                  index |-> ExactMatchIndex(complaint_data, args.text, args.conditions),
                  solution |-> find_exact_match(complaint_data, args.text, args.conditions)])
    /\ UNCHANGED <<complaint_data, location_data, excel_data, engine, args>>

\* the caller changes the value of one allow-listed condition to another value
ChangeCondition(key, value) ==
    /\ Len(ret) = 1
    /\ ret[1].conditions = args.conditions
    /\ value # DictGet(args.conditions, key)
    /\ args' = [args EXCEPT !.conditions = DictSet(args.conditions, key, value)]
    /\ UNCHANGED <<complaint_data, location_data, excel_data, engine, ret>>

NextMatch ==
    \/ Match
    \/ \E i \in DOMAIN all_conditions, value \in ChangedValues :
           ChangeCondition(all_conditions[i], value)

SpecMatch == InitMatch /\ [][NextMatch]_vars

\* the keys whose values differ between the two calls
ChangedKeys ==
    {all_conditions[i] : i \in
        {j \in DOMAIN all_conditions :
            DictGet(ret[1].conditions, all_conditions[j])
               # DictGet(ret[2].conditions, all_conditions[j])}}

\* C6, as amended: if a complaint's signature equals a corpus record's, then
\* changing one allow-listed condition to a value with a different canonical
\* form (absent for None, for the blank and sentinel strings and for a numeric
\* coordinate of magnitude at most 0.001; a numeric coordinate rounded to 6
\* places; any other value as its lower-cased, trimmed str) makes the
\* signature differ from that record's: find_exact_match no longer returns at
\* that record.
C6_ChangedConditionBreaksMatch ==
    (/\ Len(ret) = 2
     /\ ret[1].index # 0
     /\ \A k \in ChangedKeys :
           ConditionValue(k, DictGet(ret[1].conditions, k))
              # ConditionValue(k, DictGet(ret[2].conditions, k)))
        => /\ ret[2].index # ret[1].index
           /\ hist_signature(complaint_data[ret[1].index])
                 # create_complaint_signature(args.text, ret[2].conditions)

C6_Witness ==
    /\ Len(ret) = 2
    /\ ret[1].index # 0
    /\ \A k \in ChangedKeys :
          ConditionValue(k, DictGet(ret[1].conditions, k))
             # ConditionValue(k, DictGet(ret[2].conditions, k))
    /\ ret[2].index \notin {0, ret[1].index}
    /\ ret[2].solution = ret[1].solution

\* C6, as stated: if a complaint exactly matches a corpus record, then
\* changing the value of one allow-listed condition to a different value makes
\* find_exact_match no longer return that record's solution.
C6_AnyDifferentValue ==
    (Len(ret) = 2 /\ ret[1].index # 0) => ret[2].solution # ret[1].solution

-----------------------------------------------------------------------------
(* SpecSim: find_similar_complaints and its similarity score *)

MaxTopN == 2

LongText == <<"a", " ", "b", " ", "c", " ", "d", " ", "e", " ", "f", " ", "g", " ", "h", " ", "n", "e", "t">>

SimPool ==
    {ComplaintRow(NoNet, Restart, <<>>, NaNV, NaNV),
     ComplaintRow(NoNet, CheckSite, <<>>, NaNV, NaNV),
     ComplaintRow(NetDown, CheckSite, <<>>, NaNV, NaNV)}

SimTexts == {Net, NoNet, NetDown, Slow, LongText}

InitSim ==
    /\ complaint_data \in SeqsUpTo(SimPool, MaxRecords)
    /\ location_data = <<>>
    /\ excel_data = <<>>
    /\ NoCall
    /\ args \in {[text |-> t, top_n |-> n] : t \in SimTexts, n \in 0..MaxTopN}
    /\ ret = <<>>

\* find_similar_complaints(args.text, args.top_n) is called
FindSimilar ==
    /\ calls = <<>>
    /\ calls' = <<"find_similar_complaints">>
    /\ ret' = <<find_similar_complaints(complaint_data, args.text, args.top_n)>>
    /\ UNCHANGED <<complaint_data, location_data, excel_data, complaint_details, pc, exact_solution,
                   location_context, similar_complaints, prompt, solution_type, args>>

\* the score of args.text against row i, and the score of row i's issue
\* description against a record whose issue description is args.text
Score(i) ==
    /\ calls = <<>>
    /\ calls' = <<"similarity">>
    /\ ret' = <<[index |-> i,
                 forward |-> Similarity(args.text, complaint_data[i]),
                 backward |-> Similarity(StrOf(complaint_data[i]["Issue Description"]),
                                         ComplaintRow(args.text, <<>>, <<>>, NaNV, NaNV))]>>
    /\ UNCHANGED <<complaint_data, location_data, excel_data, complaint_details, pc, exact_solution,
                   location_context, similar_complaints, prompt, solution_type, args>>

NextSim ==
    \/ FindSimilar
    \/ \E i \in DOMAIN complaint_data : Score(i)

SpecSim == InitSim /\ [][NextSim]_vars

\* the rows idx[1], idx[2], ... are what the result holds, each scores more
\* than 0.1 against the text, and they are in non-increasing score order with
\* rows of equal score in corpus order
RankedRows(result, idx) ==
    /\ \A k \in DOMAIN result :
          /\ result[k] = row_data(complaint_data[idx[k]])
          /\ AboveThreshold(Similarity(args.text, complaint_data[idx[k]]))
    /\ \A k \in DOMAIN result : k < Len(result) =>
          /\ ~FracGreater(Similarity(args.text, complaint_data[idx[k + 1]]),
                          Similarity(args.text, complaint_data[idx[k]]))
          /\ ~FracGreater(Similarity(args.text, complaint_data[idx[k]]),
                          Similarity(args.text, complaint_data[idx[k + 1]]))
                => idx[k] < idx[k + 1]

\* C8: for every corpus, text and top_n >= 0, find_similar_complaints returns
\* at most top_n records, every returned record has a score strictly greater
\* than 0.1 against the text, and the returned records are in non-increasing
\* score order, with records of equal score in corpus order.
C8_TopNThresholdOrder ==
    calls = <<"find_similar_complaints">> =>
        /\ Len(ret[1]) <= args.top_n
        /\ \E idx \in [DOMAIN ret[1] -> DOMAIN complaint_data] : RankedRows(ret[1], idx)

C8_Witness ==
    /\ calls = <<"find_similar_complaints">>
    /\ args.top_n = 2
    /\ Len(complaint_data) = 3
    /\ \A i \in DOMAIN complaint_data :
          AboveThreshold(Similarity(args.text, complaint_data[i]))
    /\ FracGreater(Similarity(args.text, complaint_data[2]),
                   Similarity(args.text, complaint_data[1]))
    /\ Similarity(args.text, complaint_data[2]) = Similarity(args.text, complaint_data[3])
    /\ complaint_data[2] # complaint_data[3]
    /\ ret[1] = <<row_data(complaint_data[2]), row_data(complaint_data[3])>>

\* C8, at the threshold: a row that scores exactly 0.1 is not returned
C8_ThresholdEdge ==
    /\ calls = <<"find_similar_complaints">>
    /\ args.top_n > 0
    /\ complaint_data # <<>>
    /\ \A i \in DOMAIN complaint_data :
          Similarity(args.text, complaint_data[i]) = <<1, 10>>
    /\ ret[1] = <<>>

\* C9: the similarity score is symmetric and reflexive: the score of text A
\* against a record with issue B equals the score of B against a record with
\* issue A, and a text identical to a record's issue description, with a
\* non-empty token set, scores exactly 1 against that record.
C9_SymmetricReflexive ==
    calls = <<"similarity">> =>
        /\ ~FracGreater(ret[1].forward, ret[1].backward)
        /\ ~FracGreater(ret[1].backward, ret[1].forward)
        /\ (/\ args.text = StrOf(complaint_data[ret[1].index]["Issue Description"])
            /\ complaint_words(args.text) # {})
              => ret[1].forward[1] = ret[1].forward[2]

-----------------------------------------------------------------------------
(* SpecLoc: get_location_context called on a location table *)

MaxLocSites == 2

FortSite == <<"F","o","r","t">>
FortEast == <<"F","o","r","t"," ","E","a","s","t">>
Kandy == <<"k","a","n","d","y">>
Galle == <<"g","a","l","l","e">>

\* two sites 0.0002 apart, one of them with a coverage cell of exactly 70; a
\* site whose coverage cell is not a number; a site without a longitude
LocPool ==
    {LocationRow(FortSite, FloatV(798600000), FloatV(69200000), StrV(<<"8", "5", "%">>)),
     LocationRow(Kandy, FloatV(798602000), FloatV(69200000), FloatV(700000000)),
     LocationRow(FortEast, FloatV(798650000), FloatV(69200000), StrV(<<"N", "/", "A">>)),
     LocationRow(Galle, NaNV, FloatV(69200000), StrV(<<"7", "0", ".", "5", "%">>))}

LocPlaces ==
    {[location |-> NoneV, longitude |-> NoneV, latitude |-> NoneV],
     [location |-> NoneV, longitude |-> FloatV(798601000), latitude |-> FloatV(69200000)],
     [location |-> StrV(Kandy), longitude |-> FloatV(798601000), latitude |-> FloatV(69200000)],
     [location |-> StrV(Galle), longitude |-> FloatV(798601000), latitude |-> FloatV(69200000)],
     [location |-> StrV(Fort), longitude |-> NoneV, latitude |-> NoneV],
     [location |-> StrV(<<"F","O","R","T"," ","E","A","S","T"," ","G","A","T","E">>),
      longitude |-> NoneV, latitude |-> NoneV],
     [location |-> StrV(<<"K","A","N","D","Y">>),
      longitude |-> FloatV(799000000), latitude |-> FloatV(69200000)],
     [location |-> NoneV, longitude |-> FloatV(798700000), latitude |-> FloatV(69200000)],
     [location |-> StrV(Galle), longitude |-> NoneV, latitude |-> FloatV(69200000)]}

InitLoc ==
    /\ complaint_data = <<>>
    /\ location_data \in SeqsUpTo(LocPool, MaxLocSites)
    /\ excel_data = <<>>
    /\ NoCall
    /\ args \in {complaint_details_of(Msisdn, StrV(Slow), Kwargs(place)) : place \in LocPlaces}
    /\ ret = <<>>

\* get_location_context(args) is called
Locate ==
    /\ calls = <<>>
    /\ calls' = <<"get_location_context">>
    /\ ret' = <<get_location_context(location_data, args)>>
    /\ UNCHANGED <<complaint_data, location_data, excel_data, complaint_details, pc,
                   exact_solution, location_context, similar_complaints, prompt,
                   solution_type, args>>

NextLoc == Locate

SpecLoc == InitLoc /\ [][NextLoc]_vars

\* the >-105dBm percentage cell of a location record, read as a number after
\* its percent sign is removed
CoverageOf(row) ==
    ParseFloat(RemovePercent(StrOf(RowGet(row, "RSRP >-105dBm (%)", StrV(<<"0">>)))))

\* C11: whenever get_location_context returns a context, by coordinates or by
\* name, its coverage_quality is "Good" if the matched record's >-105dBm
\* percentage, read after its percent sign is removed, is greater than 70, and
\* "Poor" otherwise, at exactly 70 too.
C11_GoodIffAbove70 ==
    (ret # <<>> /\ ret[1].context # <<>>) =>
        /\ CoverageOf(ret[1].row).ok
        /\ ret[1].context[1].coverage_quality \in {"Good", "Poor"}
        /\ ret[1].context[1].coverage_quality = "Good"
               <=> (~CoverageOf(ret[1].row).nan /\ CoverageOf(ret[1].row).n > 70 * Unit)

C11_Witness ==
    /\ ret # <<>>
    /\ ret[1].context # <<>>
    /\ ret[1].context[1].coverage_quality = "Poor"
    /\ CoverageOf(ret[1].row).n = 70 * Unit
    /\ DictGet(args, "longitude") # NoneV

\* C11, the other cases reached: "Good" by name, for a cell just above 70
C11_GoodByName ==
    /\ ret # <<>>
    /\ ret[1].context # <<>>
    /\ ret[1].context[1].coverage_quality = "Good"
    /\ CoverageOf(ret[1].row).n = 705 * (Unit \div 10)
    /\ DictGet(args, "longitude") = NoneV

\* C12: when the >-105dBm percentage cell of the matched location record is
\* not a number, get_location_context raises nothing and returns a context
\* whose coverage_quality is "Poor".
C12_UnparsableIsPoor ==
    (ret # <<>> /\ ret[1].row # <<>> /\ ~CoverageOf(ret[1].row).ok) =>
        /\ ~ret[1].raised
        /\ ret[1].context # <<>>
        /\ ret[1].context[1].coverage_quality = "Poor"

\* longitude and latitude of a location record as float() reads them
RowLon(row) == FloatOf(RowGet(row, "Lon", FloatV(0)))
RowLat(row) == FloatOf(RowGet(row, "Lat", FloatV(0)))

\* the squared distance of a record to the point (lon, lat)
RowDist2(row, lon, lat) == Distance2(lon - RowLon(row).n, lat - RowLat(row).n)

\* the records with numeric coordinates at a distance below 0.01 of the point
NearRows(data, lon, lat) ==
    {i \in DOMAIN data :
        /\ RowLon(data[i]).ok /\ ~RowLon(data[i]).nan
        /\ RowLat(data[i]).ok /\ ~RowLat(data[i]).nan
        /\ Near(lon - RowLon(data[i]).n, lat - RowLat(data[i]).n)}

\* record i is the first, in table order, of the records of minimum distance
\* among those below 0.01
IsNearest(data, lon, lat, i) ==
    /\ i \in NearRows(data, lon, lat)
    /\ \A j \in NearRows(data, lon, lat) :
          /\ ~Dist2Less(RowDist2(data[j], lon, lat), RowDist2(data[i], lon, lat))
          /\ j < i => Dist2Less(RowDist2(data[i], lon, lat), RowDist2(data[j], lon, lat))

\* the records whose site name contains, or is contained in, the name, letter
\* case aside
NameRows(data, name) ==
    {i \in DOMAIN data :
        \/ IsSubstr(lower(name), lower(StrOf(RowGet(data[i], "Site Name", StrV(<<>>)))))
        \/ IsSubstr(lower(StrOf(RowGet(data[i], "Site Name", StrV(<<>>)))), lower(name))}

\* both coordinates are given and some record is below 0.01 of the point
CoordinateModeFinds ==
    /\ DictGet(args, "longitude") # NoneV
    /\ DictGet(args, "latitude") # NoneV
    /\ NearRows(location_data, DictGet(args, "longitude").n, DictGet(args, "latitude").n) # {}

\* a name is given and some record's site name matches it
NameModeFinds ==
    /\ DictGet(args, "location") # NoneV
    /\ DictGet(args, "location").s # <<>>
    /\ NameRows(location_data, DictGet(args, "location").s) # {}

\* C17: when both coordinates are given and some record lies at a planar
\* Euclidean distance below 0.01 of the point, get_location_context reads the
\* record of minimum distance, the first in table order on equal distances;
\* otherwise, when a name is given, it reads the first record in table order
\* whose site name contains or is contained in the name, letter case aside;
\* otherwise it reads no record and returns None.
C17_CoordinateThenName ==
    ret # <<>> =>
        IF CoordinateModeFinds
        THEN \E i \in DOMAIN location_data :
                /\ IsNearest(location_data, DictGet(args, "longitude").n,
                             DictGet(args, "latitude").n, i)
                /\ ret[1].row = location_data[i]
        ELSE IF NameModeFinds
        THEN \E i \in NameRows(location_data, DictGet(args, "location").s) :
                /\ \A j \in NameRows(location_data, DictGet(args, "location").s) : i <= j
                /\ ret[1].row = location_data[i]
        ELSE ret[1] = NoContext

\* two records at the same distance of the point, and a name that matches the
\* second only: the first is read
C17_Witness ==
    /\ ret # <<>>
    /\ Len(location_data) = 2
    /\ CoordinateModeFinds
    /\ NearRows(location_data, DictGet(args, "longitude").n,
                DictGet(args, "latitude").n) = {1, 2}
    /\ RowDist2(location_data[1], DictGet(args, "longitude").n, DictGet(args, "latitude").n)
         = RowDist2(location_data[2], DictGet(args, "longitude").n, DictGet(args, "latitude").n)
    /\ NameModeFinds
    /\ NameRows(location_data, DictGet(args, "location").s) = {2}
    /\ ret[1].row = location_data[1]
    /\ ret[1].row # location_data[2]
    /\ ret[1].context # <<>>

\* C17, the other case reached: the point is near no record and the name, in
\* another letter case, matches the second record
C17_ByNameAfterCoordinates ==
    /\ ret # <<>>
    /\ DictGet(args, "longitude") # NoneV
    /\ ~CoordinateModeFinds
    /\ NameRows(location_data, DictGet(args, "location").s) = {2}
    /\ ret[1].row = location_data[2]
    /\ DictGet(args, "location").s # lower(DictGet(args, "location").s)

-----------------------------------------------------------------------------
(* SpecSite: get_location_data called on the table of app/location.py *)

MaxExcelRows == 2

ExcelRow(name, lat, lon) ==
    [c \in {"Site Name", "location_corrected.lat", "location_corrected.lon",
            "RSRP Range 1 (>-105dBm) %", "RSRP Range 2 (-105~-110dBm) %",
            "RSRP Range 3 (-110~-115dBm) %", "RSRP < -115dBm"} |->
        CASE c = "Site Name" -> StrV(name)
          [] c = "location_corrected.lat" -> lat
          [] c = "location_corrected.lon" -> lon
          [] c = "RSRP Range 1 (>-105dBm) %" -> FloatV(85 * Unit)
          [] OTHER -> FloatV(5 * Unit)]

\* two cells of one site, a site 1.5 km east of it, a site 94 km away, and a
\* site whose latitude cell is blank
ExcelPool ==
    {ExcelRow(FortSite, FloatV(69200000), FloatV(798600000)),
     ExcelRow(FortEast, FloatV(69200000), FloatV(798600000)),
     ExcelRow(<<"P","e","t","t","a","h">>, FloatV(69200000), FloatV(798736000)),
     ExcelRow(Kandy, FloatV(72900000), FloatV(806300000)),
     ExcelRow(Galle, NaNV, FloatV(798600000))}

\* the query points: at the first site, between the two near sites, and more
\* than 2 km away from every site
QueryPoints ==
    {[lat |-> FloatV(69200000), lon |-> FloatV(798600000)],
     [lat |-> FloatV(69200000), lon |-> FloatV(798680000)],
     [lat |-> FloatV(69200000), lon |-> FloatV(799000000)]}

InitSite ==
    /\ complaint_data = <<>>
    /\ location_data = <<>>
    /\ excel_data \in {<<rows>> : rows \in SeqsUpTo(ExcelPool, MaxExcelRows)}
    /\ NoCall
    /\ args \in QueryPoints
    /\ ret = <<>>

\* GET /location_data?lat=..&lon=..
NearestSite ==
    /\ calls = <<>>
    /\ excel_data # <<>>
    /\ calls' = <<"get_location_data">>
    /\ ret' = <<get_location_data(excel_data[1], args.lat, args.lon)>>
    /\ UNCHANGED <<complaint_data, location_data, excel_data, complaint_details, pc,
                   exact_solution, location_context, similar_complaints, prompt,
                   solution_type, args>>

NextSite == NearestSite

SpecSite == InitSite /\ [][NextSite]_vars

\* the distance of the query point to a record
QueryDistance(row) ==
    haversine_distance(args.lat, args.lon,
                       row["location_corrected.lat"], row["location_corrected.lon"])

\* the records the distance to which is a number
Located == {i \in DOMAIN excel_data[1] : ~QueryDistance(excel_data[1][i]).nan}

\* what the response holds for each record
SiteInfos == [i \in DOMAIN excel_data[1] |->
                 site_info(excel_data[1][i], QueryDistance(excel_data[1][i]))]

Within2Km(info) == ~info.distance_km.nan /\ info.distance_km.mm <= 2000000

\* record n is the first, in table order, of the records of minimum distance
FirstOfMinimumDistance(n) ==
    /\ n \in Located
    /\ \A j \in Located :
          /\ SiteInfos[n].distance_km.mm <= SiteInfos[j].distance_km.mm
          /\ j < n => SiteInfos[n].distance_km.mm < SiteInfos[j].distance_km.mm

\* the response names the nearest record n and the records within 2 km, or n
\* alone when there is none, and a record at the query point is returned at
\* distance 0
NearestAndNearby(response) ==
    /\ response.status_code = 200
    /\ \E n \in DOMAIN excel_data[1] :
          /\ FirstOfMinimumDistance(n)
          /\ response.nearest_site = <<SiteInfos[n]>>
          /\ response.nearby_sites =
                IF SelectSeq(SiteInfos, Within2Km) # <<>>
                THEN SelectSeq(SiteInfos, Within2Km)
                ELSE <<SiteInfos[n]>>
    /\ response.nearby_sites # <<>>
    /\ \E k \in DOMAIN response.nearby_sites :
          response.nearby_sites[k] = response.nearest_site[1]
    /\ \A i \in DOMAIN excel_data[1] :
          (/\ excel_data[1][i]["location_corrected.lat"] = args.lat
           /\ excel_data[1][i]["location_corrected.lon"] = args.lon)
             => /\ response.nearest_site[1].distance_km = Km(0)
                /\ \E k \in DOMAIN response.nearby_sites :
                      response.nearby_sites[k] = SiteInfos[i]

\* C14: for a table with at least one record whose coordinates are numbers,
\* get_location_data returns as nearest_site the first record in table order
\* of minimum distance among those records, and as nearby_sites the records
\* at a distance <= 2 km in table order, or the nearest record alone when
\* there is none; nearby_sites is not empty and holds nearest_site, and a
\* record at the query point is returned at distance 0 inside nearby_sites.
\* For a table in which no record has numeric coordinates the answer is
\* not-found.
C14_NearestAmongLocated ==
    ret # <<>> =>
        IF Located # {}
        THEN NearestAndNearby(ret[1])
        ELSE ret[1].status_code = 404

\* two records at the query point: the first is the nearest, at distance 0,
\* and both are nearby
C14_Witness ==
    /\ ret # <<>>
    /\ Len(excel_data[1]) = 2
    /\ excel_data[1][1] # excel_data[1][2]
    /\ \A i \in {1, 2} : QueryDistance(excel_data[1][i]) = Km(0)
    /\ ret[1].nearest_site = <<SiteInfos[1]>>
    /\ ret[1].nearby_sites = SiteInfos

\* C14, the other cases reached: no record within 2 km and the second record
\* the nearest; a record without latitude next to a located one
C14_NearestAlone ==
    /\ ret # <<>>
    /\ Len(excel_data[1]) = 2
    /\ SelectSeq(SiteInfos, Within2Km) = <<>>
    /\ ret[1].nearest_site = <<SiteInfos[2]>>
    /\ ret[1].nearby_sites = <<SiteInfos[2]>>

C14_BlankCoordinateSkipped ==
    /\ ret # <<>>
    /\ Located = {2}
    /\ ret[1].nearest_site = <<SiteInfos[2]>>

\* C14 as stated: for every non-empty table the answer has a nearest_site of
\* minimum distance and a non-empty nearby_sites.
C14_EveryNonEmptyTable ==
    (ret # <<>> /\ excel_data[1] # <<>>) => NearestAndNearby(ret[1])

-----------------------------------------------------------------------------
(* SpecEmpty: the handler and app/location.py without their data: a model   *)
(* file that gives no tables, an Excel file that is missing or has no rows  *)

\* no file, a file pickle.load cannot read, a model without the two keys, a
\* model without location_data, and a model with two empty tables
UnavailableModels ==
    {ModelFile(FALSE, FALSE, <<>>, <<>>),
     ModelFile(TRUE, FALSE, <<>>, <<>>),
     ModelFile(TRUE, TRUE, <<>>, <<>>),
     ModelFile(TRUE, TRUE, << <<ComplaintRow(NoNet, Restart, <<>>, NaNV, NaNV)>> >>, <<>>),
     ModelFile(TRUE, TRUE, << <<>> >>, << <<>> >>)}

ExcelFiles == {[exists |-> FALSE, rows |-> <<>>], [exists |-> TRUE, rows |-> <<>>]}

InitEmpty ==
    /\ \E file \in UnavailableModels :
          /\ complaint_data = load_model(file).complaint_data
          /\ location_data = load_model(file).location_data
    /\ excel_data = <<>>
    /\ NoCall
    /\ args \in QueryPoints
    /\ ret = <<>>

\* app.location is imported: excel_data = pd.read_excel(file_path)
ImportLocation(file) ==
    /\ pc = "idle"
    /\ calls = <<>>
    /\ excel_data = <<>>
    /\ ret = <<>>
    /\ excel_data' = read_excel(file).excel_data
    /\ ret' = <<read_excel(file)>>
    /\ UNCHANGED <<complaint_data, location_data, engine, args>>

NextEmpty ==
    \/ \E file \in ExcelFiles : ImportLocation(file)
    \/ pc = "idle" /\ NearestSite
    \/ \E details \in Requests : calls = <<>> /\ Call(details)
    \/ StepExactMatch
    \/ StepLocationContext
    \/ StepSimilar
    \/ StepSelect
    \/ Return

SpecEmpty == InitEmpty /\ [][NextEmpty]_vars

\* C13: with an empty or unavailable complaint corpus and location table no
\* lookup raises: find_exact_match returns None, get_location_context returns
\* None, find_similar_complaints returns an empty list, generate_solution
\* yields new_complaint and never exact_match, the location table of the
\* nearest-site lookup is loaded without an exception and the lookup reports
\* not-found.
C13_EmptyDegrades ==
    (complaint_data = <<>> /\ location_data = <<>>) =>
        /\ pc # "raised"
        /\ pc \notin {"idle", "find_exact_match"} => exact_solution = <<>>
        /\ pc \in {"select", "done"} =>
              /\ location_context = <<>>
              /\ similar_complaints = <<>>
        /\ pc = "done" => solution_type = "new_complaint"
        /\ (pc = "idle" /\ calls = <<>> /\ ret # <<>>) => ~ret[1].raised
        /\ (pc = "idle" /\ calls = <<"get_location_data">>) =>
              /\ ret[1].status_code = 404
              /\ ret[1].nearest_site = <<>>

\* C13, the engine alone: the same without the nearest-site lookup
C13_EngineDegrades ==
    (complaint_data = <<>> /\ location_data = <<>>) =>
        /\ pc # "raised"
        /\ pc \notin {"idle", "find_exact_match"} => exact_solution = <<>>
        /\ pc \in {"select", "done"} =>
              /\ location_context = <<>>
              /\ similar_complaints = <<>>
        /\ pc = "done" => solution_type = "new_complaint"
        /\ (pc = "idle" /\ calls = <<"get_location_data">>) =>
              /\ ret[1].status_code = 404
              /\ ret[1].nearest_site = <<>>

\* C13, the cases reached: a call that ends with new_complaint, and a
\* nearest-site lookup on a table without rows
C13_NewComplaintReached ==
    pc = "done" /\ solution_type = "new_complaint" /\ complaint_data = <<>>

C13_NotFoundReached ==
    pc = "idle" /\ calls = <<"get_location_data">> /\ excel_data = << <<>> >>
        /\ ret[1].status_code = 404

-----------------------------------------------------------------------------
(* SpecCoord: find_exact_match on records whose coordinate cells are blank, *)
(* not numbers, or near zero                                                *)

MaxCoordRecords == 2

\* a blank cell, a cell float() cannot read, 0.001, -0.0005, and coordinates
CoordCells ==
    {NaNV, StrV(<<"x">>), FloatV(10000), FloatV(0 - 5000), FloatV(798600000)}

CoordPool ==
    {ComplaintRow(NoNet, Restart, ("Signal Strength" :> StrV(Good)), lon, NaNV) :
        lon \in CoordCells}
    \cup {ComplaintRow(Slow, CheckSite, <<>>, NaNV, lat) :
             lat \in {StrV(<<"N", "/", "A">>), FloatV(10000), FloatV(69200000)}}

CoordRequests ==
    {complaint_details_of(Msisdn, StrV(NoNet), Kwargs([signal_strength |-> StrV(Good)])),
     complaint_details_of(Msisdn, StrV(NoNet),
         Kwargs([signal_strength |-> StrV(Good), longitude |-> FloatV(798600000)])),
     complaint_details_of(Msisdn, StrV(Slow), Kwargs(<<>>)),
     complaint_details_of(Msisdn, StrV(Slow), Kwargs([latitude |-> FloatV(69200000)]))}

InitCoord ==
    /\ complaint_data \in SeqsUpTo(CoordPool, MaxCoordRecords)
    /\ location_data = <<>>
    /\ excel_data = <<>>
    /\ NoCall
    /\ args \in {[text |-> StrOf(DictGet(details, "complaint")), conditions |-> details] :
                    details \in CoordRequests}
    /\ ret = <<>>

NextCoord == Match

SpecCoord == InitCoord /\ [][NextCoord]_vars

\* a coordinate cell that is missing, that float() cannot read, or whose
\* magnitude is at most 0.001
VoidCoordinate(v) ==
    \/ v.t \in {"nan", "None"}
    \/ v.t = "float" /\ Abs(v.n) <= Unit \div 1000
    \/ v.t = "str" /\ ~ParseFloat(v.s).ok
    \/ v.t = "str" /\ ParseFloat(v.s).ok
          /\ (ParseFloat(v.s).nan \/ Abs(ParseFloat(v.s).n) <= Unit \div 1000)

\* the record with its void coordinate cells blank
WithoutVoidCoordinates(row) ==
    [c \in DOMAIN row |->
        IF c \in {"Lon", "Lat"} /\ VoidCoordinate(row[c]) THEN NaNV ELSE row[c]]

\* C18: find_exact_match returns, at the same record, what it returns for the
\* table in which every longitude or latitude cell that is missing, not a
\* number, or of magnitude at most 0.001 is blank: such a record is signed
\* and compared by its other fields, and the records after it are scanned.
C18_VoidCoordinateIsAbsent ==
    ret # <<>> =>
        /\ ret[1].index =
              ExactMatchIndex([i \in DOMAIN complaint_data |->
                                  WithoutVoidCoordinates(complaint_data[i])],
                              args.text, args.conditions)
        /\ ret[1].solution =
              find_exact_match([i \in DOMAIN complaint_data |->
                                   WithoutVoidCoordinates(complaint_data[i])],
                               args.text, args.conditions)

\* the first record has a longitude cell that is not a number and another
\* text; the second, with a latitude of 0.001, is the one matched
C18_Witness ==
    /\ ret # <<>>
    /\ Len(complaint_data) = 2
    /\ complaint_data[1]["Lon"] = StrV(<<"x">>)
    /\ complaint_data[2]["Lat"] = FloatV(10000)
    /\ ret[1].index = 2
    /\ ret[1].solution # <<>>

\* C18, the other case reached: a record with a longitude cell that is not a
\* number is matched by its text and its signal strength
C18_MatchedByOtherFields ==
    /\ ret # <<>>
    /\ ret[1].index = 1
    /\ complaint_data[1]["Lon"] = StrV(<<"x">>)
    /\ DictGet(args.conditions, "signal_strength") = StrV(Good)

\* C18, the contrast: a record with numeric coordinates is not matched by a
\* complaint without them
C18_CoordinateKept ==
    /\ ret # <<>>
    /\ Len(complaint_data) = 1
    /\ complaint_data[1]["Lon"] = FloatV(798600000)
    /\ DictGet(args.conditions, "longitude") = NoneV
    /\ args.text = NoNet
    /\ ret[1].index = 0

-----------------------------------------------------------------------------
(* SpecName: generate_solution for complaints that name a location, on      *)
(* records that have a Location column                                      *)

MaxNameRecords == 2

\* a record with a Location cell
NamedRow(row, location) ==
    [c \in DOMAIN row \cup {"Location"} |->
        IF c = "Location" THEN StrV(location) ELSE row[c]]

DeviceX == <<"x">>
DeviceXLocationFort == <<"x","|","l","o","c","a","t","i","o","n",":","f","o","r","t">>

\* a record without conditions, a record with a device cell, and a record
\* whose device cell holds the text of a condition item
NamePool ==
    {NamedRow(ComplaintRow(NoNet, Restart, <<>>, NaNV, NaNV), Fort),
     NamedRow(ComplaintRow(NoNet, Restart,
                  ("Device type/settings/VPN/APN" :> StrV(DeviceX)), NaNV, NaNV), Fort),
     NamedRow(ComplaintRow(NoNet, CheckSite,
                  ("Device type/settings/VPN/APN" :> StrV(DeviceXLocationFort)), NaNV, NaNV),
              Kandy)}

NameRequests ==
    {complaint_details_of(Msisdn, StrV(NoNet),
         Kwargs([device_type_settings_vpn_apn |-> device, location |-> location])) :
        device \in {NoneV, StrV(DeviceX)},
        location \in {NoneV, StrV(FortSite), StrV(<<"N", "/", "A">>),
                      StrV(<<" ", "n", "o", "n", "e", " ">>), StrV(<<" ", " ">>)}}

InitName ==
    /\ complaint_data \in SeqsUpTo(NamePool, MaxNameRecords)
    /\ location_data = <<LocationRow(Fort, FloatV(798600000), FloatV(69200000),
                                     StrV(<<"8", "5", "%">>))>>
    /\ excel_data = <<>>
    /\ NoCall
    /\ args = <<>>
    /\ ret = <<>>

NextName ==
    \/ \E details \in NameRequests : Call(details)
    \/ StepExactMatch
    \/ StepLocationContext
    \/ StepSimilar
    \/ StepSelect
    \/ Return

SpecName == InitName /\ [][NextName]_vars

\* the complaint in progress names a location: its location is a str that is
\* not blank and not one of n/a, none, null, undefined
NamesLocation ==
    /\ complaint_details # <<>>
    /\ DictGet(complaint_details, "location").t = "str"
    /\ lower(strip(DictGet(complaint_details, "location").s)) \notin Sentinels

LocationItem == <<"l","o","c","a","t","i","o","n",":">>

\* the text of a record as signed, or one of its condition cells, contains
\* the text "location:"
HoldsLocationItem(row) ==
    \/ IsSubstr(LocationItem,
                normalized_complaint(remove_specific_locations(
                    StrOf(RowGet(row, "Issue Description", StrV(<<>>))))))
    \/ \E j \in DOMAIN hist_conditions(row) :
          /\ hist_conditions(row)[j][2].t = "str"
          /\ IsSubstr(LocationItem, lower(hist_conditions(row)[j][2].s))

\* C19: the conditions signed for a historical record never have a location
\* key, and the items signed for an incoming complaint have one whenever the
\* complaint names a location; a complaint that names a location gets
\* exact_match only from a record whose signed text or one of whose
\* condition cells contains the text "location:".
C19_NamedMatchesOnlyLocationItem ==
    /\ \A i \in DOMAIN complaint_data :
          \A j \in DOMAIN hist_conditions(complaint_data[i]) :
             hist_conditions(complaint_data[i])[j][1] # "location"
    /\ NamesLocation =>
          /\ ConditionValue("location", DictGet(complaint_details, "location")) # <<>>
          /\ exact_solution # <<>> =>
                \E i \in DOMAIN complaint_data :
                   /\ HoldsLocationItem(complaint_data[i])
                   /\ exact_solution = MatchedSolution(complaint_data, i)
          /\ (pc = "done" /\ solution_type = "exact_match") => exact_solution # <<>>

\* a complaint that names a location ends without exact_match although the
\* same complaint without the name matches a record
C19_Witness ==
    /\ pc = "done"
    /\ NamesLocation
    /\ solution_type # "exact_match"
    /\ exact_solution = <<>>
    /\ find_exact_match(complaint_data, StrOf(DictGet(complaint_details, "complaint")),
                        DictSet(complaint_details, "location", NoneV)) # <<>>

\* C19, the contrast: a location of " none " is no name, and the complaint
\* gets exact_match
C19_SentinelMatches ==
    /\ pc = "done"
    /\ DictGet(complaint_details, "location") = StrV(<<" ", "n", "o", "n", "e", " ">>)
    /\ solution_type = "exact_match"

\* C19 as stated: a complaint that names a location never gets exact_match,
\* whatever the corpus contains.
C19_NamedNeverExact ==
    (pc = "done" /\ NamesLocation) => solution_type # "exact_match"
=============================================================================
